---- MODULE Spec2Model ----
(***************************************************************************)
(* A model of the resume / job-description scoring engine                  *)
(* (backend/services/ats_scorer.py), of the service that validates its     *)
(* input (backend/services/resume_analyzer.py) and of the two HTTP routes  *)
(* in front of it (backend/api/routes.py).                                 *)
(*                                                                         *)
(* Text is modelled by TLA+ strings, character by character.  Real numbers *)
(* are modelled by exact rationals <<numerator, denominator>>; the score   *)
(* is computed over a common denominator and truncated as int() does.      *)
(***************************************************************************)
EXTENDS Integers, Sequences, FiniteSets, TLC

(***************************************************************************)
(* Characters and strings                                                  *)
(***************************************************************************)
UpperChars == "ABCDEFGHIJKLMNOPQRSTUVWXYZ"
LowerChars == "abcdefghijklmnopqrstuvwxyz"
DigitChars == "0123456789"

CharAt(s, i) == SubSeq(s, i, i)

\* a sequence given as a function on 1..n, as the tuple of its elements
AsSeq(f) == f \o <<>>

\* a function, as the table of its values
AsTable(f) == f @@ <<>>

CharsOf(alphabet) == {CharAt(alphabet, i) : i \in 1..Len(alphabet)}

\* \w of the re module on ASCII text: letters, digits and the underscore
WordChars == CharsOf(UpperChars) \cup CharsOf(LowerChars) \cup CharsOf(DigitChars) \cup {"_"}

\* \s of the re module, and the characters str.split() / str.strip() drop
SpaceChars == {" ", "\t", "\n", "\r"}

IsWordChar(c) == c \in WordChars

IsSpace(c) == c \in SpaceChars

IsDigit(c) == c \in CharsOf(DigitChars)

\* str.lower() on one ASCII character
LowerChar(c) ==
    IF \E i \in 1..Len(UpperChars) : CharAt(UpperChars, i) = c
    THEN CharAt(LowerChars, CHOOSE i \in 1..Len(UpperChars) : CharAt(UpperChars, i) = c)
    ELSE c

\* the concatenation of f(i) for i = lo..hi, by halving
RECURSIVE ConcatRange(_, _, _)
ConcatRange(f(_), lo, hi) ==
    IF lo > hi THEN ""
    ELSE IF lo = hi THEN f(lo)
    ELSE LET mid == (lo + hi) \div 2
         IN ConcatRange(f, lo, mid) \o ConcatRange(f, mid + 1, hi)

\* str.lower()
Lower(s) ==
    LET f(i) == LowerChar(CharAt(s, i))
    IN ConcatRange(f, 1, Len(s))

\* a in b, for strings
IsSubstring(a, b) ==
    \E i \in 1..(Len(b) - Len(a) + 1) : SubSeq(b, i, i + Len(a) - 1) = a

\* whether w occurs in s at position p
StartsAt(s, p, w) ==
    /\ p >= 1
    /\ p + Len(w) - 1 <= Len(s)
    /\ SubSeq(s, p, p + Len(w) - 1) = w

\* str.strip(): the text between the first and the last non-space character
Strip(s) ==
    LET solid == {i \in 1..Len(s) : ~IsSpace(CharAt(s, i))}
    IN IF solid = {} THEN ""
       ELSE LET first == CHOOSE i \in solid : \A j \in solid : i <= j
                final == CHOOSE i \in solid : \A j \in solid : j <= i
            IN SubSeq(s, first, final)

\* the elements of a finite set of integers in increasing order
SortedSeq(S) ==
    AsSeq([k \in 1..Cardinality(S) |->
        CHOOSE x \in S : Cardinality({y \in S : y < x}) = k - 1])

\* the maximal runs of characters satisfying keep, as <<start, end>> pairs in
\* text order
Runs(s, keep(_)) ==
    LET n      == Len(s)
        in(i)  == i >= 1 /\ i <= n /\ keep(CharAt(s, i))
        starts == {i \in 1..n : in(i) /\ ~in(i - 1)}
        endOf(i) == CHOOSE j \in i..n : (\A k \in i..j : in(k)) /\ ~in(j + 1)
        order  == SortedSeq(starts)
    IN AsSeq([k \in 1..Len(order) |-> <<order[k], endOf(order[k])>>])

\* the texts of the runs of s, in text order
Slices(s, runs) == AsSeq([k \in 1..Len(runs) |-> SubSeq(s, runs[k][1], runs[k][2])])

\* re.findall(r'\w+', s): the maximal runs of word characters
Words(s) == Slices(s, Runs(s, IsWordChar))

\* str.split(): the maximal runs of non-space characters
Split(s) ==
    LET notSpace(c) == ~IsSpace(c)
    IN Slices(s, Runs(s, notSpace))

\* ' '.join(words)
Join(words) ==
    LET piece(i) == IF i = 1 THEN words[1] ELSE " " \o words[i]
    IN ConcatRange(piece, 1, Len(words))

\* ATSScorer.normalize_text: lower case, every run of white space becomes
\* one space, leading and trailing white space removed
normalize_text(text) == Join(Split(Lower(text)))

Range(seq) == {seq[i] : i \in 1..Len(seq)}


Min(a, b) == IF a < b THEN a ELSE b

Max(a, b) == IF a > b THEN a ELSE b

(***************************************************************************)
(* Numbers.  A real in the code (a Python float) is a fixed-point integer  *)
(* here: the real r is the integer nearest to r * Unit.                    *)
(***************************************************************************)
Unit == 10 ^ 6

\* a / b as a fixed-point number, rounded to nearest (a >= 0, b > 0)
Ratio(a, b) == (2 * a * Unit + b) \div (2 * b)

\* round(100 * a / b, 2) counted in hundredths: round half to even
RoundPercent2(a, b) ==
    LET n == 10000 * a
        q == n \div b
        r == n % b
    IN IF 2 * r > b \/ (2 * r = b /\ q % 2 = 1) THEN q + 1 ELSE q

(***************************************************************************)
(* Keyword extraction (ATSScorer.extract_keywords)                         *)
(***************************************************************************)
\* Counter(items).most_common(top_n): by decreasing count, equal counts in
\* the order of first occurrence
MostCommon(items, top_n) ==
    LET distinct == Range(items)
        count == AsTable([t \in distinct |->
                     Cardinality({i \in 1..Len(items) : items[i] = t})])
        first == AsTable([t \in distinct |->
                     CHOOSE i \in 1..Len(items) :
                         items[i] = t /\ \A j \in 1..(i - 1) : items[j] # t])
        before(u, t) == \/ count[u] > count[t]
                        \/ count[u] = count[t] /\ first[u] < first[t]
        rank == AsTable([t \in distinct |->
                    1 + Cardinality({u \in distinct : before(u, t)})])
        n == Min(Cardinality(distinct), top_n)
    IN AsSeq([k \in 1..n |-> CHOOSE t \in distinct : rank[t] = k])

\* re.findall(r'\b\w{3,}\b', text): the maximal runs of word characters that
\* are at least three characters long
WordTokens(text) ==
    LET long(w) == Len(w) >= 3
    IN SelectSeq(Words(text), long)

stop_words ==
    {"the", "a", "an", "and", "or", "but", "in", "on", "at", "to", "for", "of",
     "with", "is", "are", "was", "were", "be", "have", "has", "had", "do",
     "does", "did", "that", "this", "which", "who", "what", "where", "when",
     "why", "how", "as", "from", "by", "up", "about", "into", "through",
     "during", "before", "after", "above", "below", "between", "under",
     "again", "further", "then", "once"}

\* SelectSeq with the elements of a set
Filter(seq, keep(_)) == SelectSeq(seq, keep)

\* the branch taken when self.nlp is None
ExtractKeywordsFallback(text, top_n) ==
    LET keep(w) == w \notin stop_words
    IN MostCommon(Filter(WordTokens(Lower(text)), keep), top_n)

\* the except: branch, taken when tagging the text raised
ExtractKeywordsUntagged(text, top_n) == MostCommon(WordTokens(Lower(text)), top_n)

\* the branch that reads the tagged document doc = [tokens, chunks]:
\* nouns, proper nouns and adjectives that are no stop words and longer than
\* two characters, then the noun chunks of more than one word
ExtractKeywordsTagged(doc, top_n) ==
    LET keep(t) == t.pos \in {"NOUN", "PROPN", "ADJ"} /\ ~t.is_stop /\ Len(t.text) > 2
        picked == Filter(doc.tokens, keep)
        words  == AsSeq([k \in 1..Len(picked) |-> picked[k].text])
        multi(c) == Len(Split(c)) > 1
        chunks == Filter(doc.chunks, multi)
    IN MostCommon(words \o [k \in 1..Len(chunks) |-> Lower(chunks[k])], top_n)

(***************************************************************************)
(* Keyword matching (ATSScorer.find_keyword_matches)                       *)
(***************************************************************************)
\* a version of find_keyword_matches that counts the rate against the
\* keywords of the resume
find_keyword_matchesOverResume(resume_keywords, job_keywords) ==
    LET resume_set == Range(resume_keywords)
        job_set    == Range(job_keywords)
        matched    == resume_set \cap job_set
        hits       == Cardinality(matched)
    IN [matched    |-> matched,
        missing    |-> job_set \ matched,
        hits       |-> hits,
        total      |-> Cardinality(resume_set),
        match_rate |-> IF resume_set # {} THEN Ratio(hits, Cardinality(resume_set))
                       ELSE 0]

\* a version of find_keyword_matches whose partial matches are sought among
\* all the job keywords
find_keyword_matchesRepeated(resume_keywords, job_keywords) ==
    LET resume_set == Range(resume_keywords)
        job_set    == Range(job_keywords)
        matched    == resume_set \cap job_set
        partial_matches ==
            {job_kw \in job_set :
                \E resume_kw \in resume_set :
                    IsSubstring(job_kw, resume_kw) \/ IsSubstring(resume_kw, job_kw)}
        all_matched == matched \cup partial_matches
        hits == Cardinality(matched) + Cardinality(partial_matches)
    IN [matched    |-> all_matched,
        missing    |-> {kw \in job_set : kw \notin all_matched},
        hits       |-> hits,
        total      |-> Cardinality(job_set),
        match_rate |-> IF job_set # {} THEN Ratio(hits, Cardinality(job_set)) ELSE 0]

\* find_keyword_matches.  The two lists it returns are given by their
\* elements; hits is the length of the list of the matched keywords.
find_keyword_matches(resume_keywords, job_keywords) ==
    LET resume_set == Range(resume_keywords)
        job_set    == Range(job_keywords)
        matched    == resume_set \cap job_set
        partial_matches ==
            {job_kw \in job_set \ matched :
                \E resume_kw \in resume_set :
                    IsSubstring(job_kw, resume_kw) \/ IsSubstring(resume_kw, job_kw)}
        all_matched == matched \cup partial_matches
        hits == Cardinality(matched) + Cardinality(partial_matches)
    IN [matched    |-> all_matched,
        missing    |-> {kw \in job_set : kw \notin all_matched},
        hits       |-> hits,
        total      |-> Cardinality(job_set),
        match_rate |-> IF job_set # {} THEN Ratio(hits, Cardinality(job_set)) ELSE 0]

\* a version of KeywordMatchRate that gives a job without keywords 100
KeywordMatchRateFullWhenEmpty(matches) ==
    IF matches.total = 0 THEN 10000
    ELSE RoundPercent2(matches.hits, matches.total)

\* 'keyword_match_rate' of the result: round(keyword_match_rate * 100, 2), in
\* hundredths of a per cent
KeywordMatchRate(matches) ==
    IF matches.total = 0 THEN 0
    ELSE RoundPercent2(matches.hits, matches.total)

(***************************************************************************)
(* Section detection (ATSScorer.detect_sections)                           *)
(***************************************************************************)
SectionNames == {"skills", "experience", "education", "achievements", "projects"}

SECTION_KEYWORDS ==
    [skills |-> {"skills", "technical skills", "core competencies", "expertise",
                 "proficiencies", "technologies", "tools",
                 "technical proficiencies", "key skills"},
     experience |-> {"experience", "work history", "employment",
                     "professional experience", "work experience",
                     "career history", "employment history",
                     "professional background"},
     education |-> {"education", "academic", "degree", "university", "college",
                    "qualification", "academic background", "certifications",
                    "training"},
     achievements |-> {"achievements", "accomplishments", "awards", "honors",
                       "recognition"},
     projects |-> {"projects", "portfolio", "key projects", "notable work"}]

\* a version of detect_sections that looks in the text as written
detect_sectionsCaseSensitive(resume_text) ==
    [section_name \in SectionNames |->
        \E keyword \in SECTION_KEYWORDS[section_name] :
            IsSubstring(keyword, resume_text)]

detect_sections(resume_text) ==
    LET text_lower == Lower(resume_text)
    IN [section_name \in SectionNames |->
            \E keyword \in SECTION_KEYWORDS[section_name] :
                IsSubstring(keyword, text_lower)]

(***************************************************************************)
(* Experience depth (ATSScorer.analyze_experience_depth)                   *)
(***************************************************************************)
VerbCategories == {"leadership", "achievement", "improvement", "creation", "collaboration"}

ACTION_VERBS ==
    [leadership |-> {"led", "managed", "directed", "supervised", "coordinated",
                     "headed", "spearheaded", "orchestrated"},
     achievement |-> {"achieved", "accomplished", "delivered", "exceeded",
                      "surpassed", "completed", "attained"},
     improvement |-> {"improved", "enhanced", "optimized", "increased", "reduced",
                      "streamlined", "accelerated", "maximized"},
     creation |-> {"created", "developed", "designed", "built", "implemented",
                   "established", "launched", "pioneered"},
     collaboration |-> {"collaborated", "partnered", "coordinated", "facilitated",
                        "contributed", "supported"}]

\* a sum over a finite set
RECURSIVE SumFn(_, _)
SumFn(S, f) ==
    IF S = {} THEN 0
    ELSE LET head == CHOOSE e \in S : TRUE
         IN f[head] + SumFn(S \ {head}, f)

SumOver(S, f(_)) == SumFn(S, [e \in S |-> f(e)])

\* len(re.findall(r'\b' + verb + r'\b', text_lower)) summed over the verbs of
\* each category: the word runs of the text equal to the verb
ActionVerbCounts(text) ==
    LET counts(words) ==
            LET occurrences(verb) ==
                    Cardinality({k \in 1..Len(words) : words[k] = verb})
            IN [category \in VerbCategories |->
                    SumOver(ACTION_VERBS[category], occurrences)]
    IN counts(Words(Lower(text)))

\* the words that may follow the digits of METRIC_PATTERNS[4] and [5]
TimeWords == {"year", "month", "week"}

ScaleWords == {"user", "customer", "client", "people", "employees", "team member"}

\* the sum over METRIC_PATTERNS of len(re.findall(pattern, text, re.IGNORECASE)).
\* Every pattern but the money pattern starts with \d+, so its matches are the
\* runs of digits followed by what the pattern asks for; the money pattern
\* matches at every $ followed by a digit.
MetricCount(text) ==
    LET count(low, digits) ==
        LET n == Len(text)
        next(k) == digits[k][2] + 1
        charAfter(k) == IF next(k) <= n THEN CharAt(low, next(k)) ELSE ""
        \* the first position after the white space that follows run k
        afterSpace(k) ==
            CHOOSE p \in next(k)..(n + 1) :
                /\ \A q \in next(k)..(p - 1) : IsSpace(CharAt(low, q))
                /\ p = n + 1 \/ ~IsSpace(CharAt(low, p))
        followedBy(k, words) ==
            \E w \in words : StartsAt(low, afterSpace(k), w)
        runsWith(ok(_)) == Cardinality({k \in 1..Len(digits) : ok(k)})
        percent(k) == charAfter(k) = "%"
        large(k)   == charAfter(k) \in {"k", "m", "b"}
        times(k)   == charAfter(k) = "x"
        period(k)  == followedBy(k, TimeWords)
        scale(k)   == followedBy(k, ScaleWords)
        money == Cardinality({p \in 1..(n - 1) :
                     CharAt(text, p) = "$" /\ IsDigit(CharAt(text, p + 1))})
        IN runsWith(percent) + money + runsWith(large) + runsWith(times)
             + runsWith(period) + runsWith(scale)
    IN count(Lower(text), Runs(text, IsDigit))

\* experience_score of analyze_experience_depth, from the counts
ExperienceStrengthUncapped(counts, metric_count) ==
    LET total_action_verbs == SumOver(VerbCategories, LAMBDA c : counts[c])
    IN total_action_verbs * 5 + metric_count * 10
         + (IF counts["leadership"] > 0 THEN 20 ELSE 0)
         + (IF counts["achievement"] > 0 THEN 15 ELSE 0)

ExperienceStrength(counts, metric_count) ==
    LET total_action_verbs == SumOver(VerbCategories, LAMBDA c : counts[c])
    IN Min(100,
           total_action_verbs * 5 + metric_count * 10
             + (IF counts["leadership"] > 0 THEN 20 ELSE 0)
             + (IF counts["achievement"] > 0 THEN 15 ELSE 0))

ExperienceAnalysis(counts, metric_count) ==
    [action_verb_count |-> SumOver(VerbCategories, LAMBDA c : counts[c]),
     metric_count |-> metric_count,
     leadership_indicators |-> counts["leadership"],
     achievement_indicators |-> counts["achievement"],
     improvement_indicators |-> counts["improvement"],
     experience_strength_score |-> ExperienceStrength(counts, metric_count),
     has_quantifiable_results |-> metric_count > 0]

analyze_experience_depth(text) ==
    ExperienceAnalysis(ActionVerbCounts(text), MetricCount(text))

(***************************************************************************)
(* Skill extraction (ATSScorer.extract_skills)                             *)
(***************************************************************************)
\* ATSScorer.extract_skills: tech_patterns, each regular expression as the
\* ordered list of the literals its alternatives match (an optional character
\* is tried first present, then absent, as the greedy ? does)
tech_patterns == <<
    \* programming
    << "python", "java", "javascript", "typescript", "c++", "c#", "golang",
       "go", "rust", "scala", "kotlin", "swift", "ruby", "php", "perl", "r",
       "matlab", "julia", "dart", "flutter", "react native", "objective-c" >>,
    \* web_frontend
    << "react", "angular", "vue", "svelte", "next.js", "nextjs", "nuxt",
       "ember", "backbone", "jquery", "html5", "html", "css3", "css", "sass",
       "scss", "less", "tailwind", "bootstrap", "material ui", "webpack",
       "vite", "parcel" >>,
    \* web_backend
    << "node.js", "nodejs", "express", "django", "flask", "fastapi",
       "spring boot", "spring boo", "spring", ".net", "asp.net", "rails",
       "laravel", "symfony", "nestjs", "koa", "hapi" >>,
    \* mobile
    << "ios", "android", "react native", "flutter", "xamarin", "ionic",
       "cordova", "swift", "kotlin", "objective-c", "swiftui" >>,
    \* databases
    << "sql", "nosql", "mysql", "postgresql", "postgres", "mongodb",
       "cassandra", "redis", "elasticsearch", "dynamodb", "oracle",
       "sql server", "mariadb", "couchdb", "neo4j", "graph database" >>,
    \* cloud
    << "aws", "azure", "gcp", "google cloud", "cloud platform", "heroku",
       "digitalocean", "lambda", "ec2", "s3", "cloudfront", "cloud functions",
       "cloud run", "kubernetes", "k8s", "docker", "containers",
       "serverless" >>,
    \* devops
    << "docker", "kubernetes", "k8s", "jenkins", "gitlab ci",
       "github actions", "circle ci", "travis", "terraform", "ansible",
       "puppet", "chef", "ci/cd", "continuous integration",
       "continuous deployment", "devops" >>,
    \* data_science
    << "machine learning", "deep learning", "ai", "artificial intelligence",
       "data science", "data analysis", "tensorflow", "pytorch", "keras",
       "scikit-learn", "pandas", "numpy", "scipy", "jupyter",
       "data visualization", "statistics", "nlp", "computer vision",
       "neural networks", "neural network" >>,
    \* tools
    << "git", "github", "gitlab", "bitbucket", "jira", "confluence", "slack",
       "trello", "asana", "vs code", "visual studio", "intellij", "eclipse",
       "postman", "swagger", "figma", "sketch", "adobe xd" >>,
    \* methodologies
    << "agile", "scrum", "kanban", "waterfall", "devops", "tdd",
       "test-driven", "test driven", "bdd", "ci/cd", "microservices", "rest",
       "restful", "graphql", "api", "soap", "mvc", "mvvm", "solid",
       "design patterns", "design pattern" >>,
    \* soft_skills
    << "leadership", "communication", "problem-solving", "problem solving",
       "analytical", "critical thinking", "team work", "collaboration",
       "project management", "time management", "adaptability", "creativity",
       "mentoring", "presentation" >>
    >>

\* \b at position p of s: exactly one of the characters before and at p is a
\* word character
IsBoundary(s, p) ==
    LET word(i) == i >= 1 /\ i <= Len(s) /\ IsWordChar(CharAt(s, i))
    IN word(p - 1) # word(p)

\* the non-overlapping matches a left-to-right scan keeps, from the candidate
\* matches <<position, length>> in text order
RECURSIVE Sweep(_, _, _)
Sweep(cands, k, free) ==
    IF k > Len(cands) THEN <<>>
    ELSE IF cands[k][1] >= free
         THEN <<cands[k]>> \o Sweep(cands, k + 1, cands[k][1] + cands[k][2])
         ELSE Sweep(cands, k + 1, free)

\* re.findall(r'\b(a1|a2|...)\b', s): at each position the first alternative
\* that matches between two word boundaries
FindAll(alts, s) ==
    LET fits(p, k) == /\ StartsAt(s, p, alts[k])
                      /\ IsBoundary(s, p)
                      /\ IsBoundary(s, p + Len(alts[k]))
        firstAlt(p) == CHOOSE k \in 1..Len(alts) :
                           fits(p, k) /\ \A j \in 1..(k - 1) : ~fits(p, j)
        cands(order) ==
            AsSeq([i \in 1..Len(order) |-> <<order[i], Len(alts[firstAlt(order[i])])>>])
        texts(kept) ==
            AsSeq([i \in 1..Len(kept) |-> SubSeq(s, kept[i][1], kept[i][1] + kept[i][2] - 1)])
    IN texts(Sweep(cands(SortedSeq({p \in 1..Len(s) : \E k \in 1..Len(alts) : fits(p, k)})),
                   1, 1))

RECURSIVE FindAllPatterns(_, _)
FindAllPatterns(k, s) ==
    IF k > Len(tech_patterns) THEN <<>>
    ELSE FindAll(tech_patterns[k], s) \o FindAllPatterns(k + 1, s)

\* the phrases a noun chunk must not contain
NonSkillPhrases == {"the ", "this ", "that ", "these ", "those "}

\* the noun chunks extract_skills adds: one to four words, no determiner
ChunkSkills(doc) ==
    LET fine(chunk, words) == /\ words >= 1
                              /\ words <= 4
                              /\ \A x \in NonSkillPhrases : ~IsSubstring(x, chunk)
        keep(c) == fine(Strip(c), Len(Split(Strip(c))))
        stripped(kept) == AsSeq([k \in 1..Len(kept) |-> Strip(kept[k])])
    IN stripped(Filter(doc.chunks, keep))

\* the last loop of extract_skills: strip, lower, drop the empty and the
\* one-character strings, keep the first occurrence of each
UniqueSkills(skills) ==
    LET unique(norm) ==
            LET keep(k) == /\ Len(norm[k]) > 1
                           /\ \A j \in 1..(k - 1) : norm[j] # norm[k]
                picked(order) == AsSeq([i \in 1..Len(order) |-> norm[order[i]]])
            IN picked(SortedSeq({k \in 1..Len(norm) : keep(k)}))
    IN unique(AsSeq([k \in 1..Len(skills) |-> Lower(Strip(skills[k]))]))

\* extract_skills when the noun chunks are not read
ExtractSkillsRegex(text) == UniqueSkills(FindAllPatterns(1, Lower(text)))

\* extract_skills when the noun chunks of the tagged document are read
ExtractSkillsTagged(text, doc) ==
    UniqueSkills(FindAllPatterns(1, Lower(text)) \o ChunkSkills(doc))

(***************************************************************************)
(* Skill coverage (ATSScorer.analyze_skills_depth, _are_skills_related)    *)
(***************************************************************************)
skill_families ==
    {{"python", "django", "flask", "fastapi", "pandas", "numpy"},
     {"javascript", "typescript", "react", "angular", "vue", "node.js", "nodejs"},
     {"aws", "azure", "gcp", "cloud", "lambda", "ec2", "s3"},
     {"docker", "kubernetes", "k8s", "containers", "devops"},
     {"sql", "mysql", "postgresql", "database", "nosql", "mongodb"},
     {"machine learning", "deep learning", "ai", "tensorflow", "pytorch", "data science"}}

\* a version of _are_skills_related that knows no family
are_skills_relatedNever(skill1, skill2) == FALSE

are_skills_related(skill1, skill2) ==
    \E family \in skill_families : skill1 \in family /\ skill2 \in family

analyze_skills_depth(resume_skills, job_skills) ==
    LET depth(resume_set, job_set) ==
        LET exact_matches == resume_set \cap job_set
        partial_matches ==
            {job_skill \in job_set \ exact_matches :
                \E resume_skill \in resume_set :
                    \/ IsSubstring(job_skill, resume_skill)
                    \/ IsSubstring(resume_skill, job_skill)
                    \/ are_skills_related(job_skill, resume_skill)}
        missing_skills == (job_set \ exact_matches) \ partial_matches
        total_required == Cardinality(job_set)
        covered == Cardinality(exact_matches) + Cardinality(partial_matches)
    IN [exact_skill_matches |-> exact_matches,
        partial_skill_matches |-> partial_matches,
        missing_skills |-> missing_skills,
        \* the two coverages are percentages counted in hundredths
        exact_coverage |-> IF total_required > 0
                           THEN RoundPercent2(Cardinality(exact_matches), total_required)
                           ELSE 0,
        total_coverage |-> IF total_required > 0
                           THEN RoundPercent2(covered, total_required)
                           ELSE 0,
        skill_match_score |-> IF total_required > 0
                              THEN (100 * covered) \div total_required
                              ELSE 0]
    IN depth({Lower(sk) : sk \in Range(resume_skills)},
             {Lower(sk) : sk \in Range(job_skills)})

(***************************************************************************)
(* Keyword context (ATSScorer.analyze_keyword_context)                     *)
(***************************************************************************)
ContextWindow == 5

ContextKeywordLimit == 20

WellContextualized == (6 * Unit) \div 10

\* the words of the windows _extract_keyword_contexts returns: the words (of
\* text.split()) at most ContextWindow places from a word that contains the
\* keyword
ContextWords(words, keyword) ==
    LET hits  == {i \in 1..Len(words) : IsSubstring(keyword, words[i])}
    IN [found |-> hits # {},
        words |-> {words[j] : j \in {j \in 1..Len(words) :
                       \E i \in hits : j >= i - ContextWindow /\ j <= i + ContextWindow}}]

\* _calculate_context_overlap: the Jaccard similarity of the two word sets
calculate_context_overlap(words1, words2) ==
    LET intersection == Cardinality(words1 \cap words2)
        union == Cardinality(words1 \cup words2)
    IN IF union > 0 THEN Ratio(intersection, union) ELSE 0

\* the score of one keyword, from its contexts in the resume and in the job
\* description
ContextScore(resume_contexts, job_contexts) ==
    IF resume_contexts.found /\ job_contexts.found
    THEN calculate_context_overlap(resume_contexts.words, job_contexts.words)
    ELSE IF resume_contexts.found THEN Unit \div 2
    ELSE 0

\* the dictionary analyze_keyword_context returns for its context_scores
ContextAnalysis(context_scores) ==
    LET scored == DOMAIN context_scores
        total  == SumFn(scored, context_scores)
    IN [context_scores |-> context_scores,
        average_context_match |->
            IF scored # {}
            THEN (2 * total + Cardinality(scored)) \div (2 * Cardinality(scored))
            ELSE 0,
        well_contextualized_keywords |->
            Cardinality({keyword \in scored : context_scores[keyword] > WellContextualized})]

\* a version of analyze_keyword_context that scores every keyword
analyze_keyword_contextAll(resume_text, job_description, keywords) ==
    LET scores(resume_words, job_words) ==
            AsTable([keyword \in Range(keywords) |->
                ContextScore(ContextWords(resume_words, keyword),
                             ContextWords(job_words, keyword))])
    IN ContextAnalysis(scores(Split(Lower(resume_text)), Split(Lower(job_description))))

analyze_keyword_context(resume_text, job_description, keywords) ==
    LET top == SubSeq(keywords, 1, Min(Len(keywords), ContextKeywordLimit))
        scores(resume_words, job_words) ==
            AsTable([keyword \in Range(top) |->
                ContextScore(ContextWords(resume_words, keyword),
                             ContextWords(job_words, keyword))])
    IN ContextAnalysis(scores(Split(Lower(resume_text)), Split(Lower(job_description))))

(***************************************************************************)
(* Similarity (ATSScorer.calculate_tfidf_similarity,                       *)
(* calculate_semantic_similarity)                                          *)
(***************************************************************************)
\* the words of TfidfVectorizer's stop_words='english' that the documents of
\* this model use
EnglishStopWords ==
    {"the", "a", "an", "and", "or", "but", "in", "on", "at", "to", "for", "of",
     "with", "is", "are", "was", "were", "be", "have", "has", "had", "do",
     "that", "this", "which", "who", "what", "where", "when", "why", "how",
     "as", "from", "by", "up", "about", "into", "through", "during", "before",
     "after", "above", "below", "between", "under", "again", "further", "then",
     "once"}

\* ngram_range=(1, 3)
MaxNgram == 3

\* the terms the vectorizer counts in one document: the runs of two or more
\* word characters of the lower-cased text that are no stop words, and the
\* sequences of up to MaxNgram consecutive ones, each as a tuple of words
TfidfTerms(text) ==
    LET keep(w) == Len(w) >= 2 /\ w \notin EnglishStopWords
        grams(words) ==
            UNION {{SubSeq(words, i, i + n - 1) : i \in 1..(Len(words) - n + 1)} :
                       n \in 1..MaxNgram}
    IN grams(SelectSeq(Words(Lower(text)), keep))

\* max_df=0.95 of the two documents fitted: a term is kept when it is in no
\* more than MaxDfPercent per cent of them
MaxDfPercent == 95

\* a vocabulary that keeps the terms of every document
TfidfVocabularyAllTerms(docs) ==
    UNION {TfidfTerms(docs[k]) : k \in 1..Len(docs)}

TfidfVocabulary(docs) ==
    LET kept(termsOf) ==
            LET df(t) == Cardinality({k \in 1..Len(docs) : t \in termsOf[k]})
            IN {t \in UNION {termsOf[k] : k \in 1..Len(docs)} :
                    100 * df(t) <= MaxDfPercent * Len(docs)}
    IN kept(AsSeq([k \in 1..Len(docs) |-> TfidfTerms(docs[k])]))

\* fit_transform([resume_text, job_description]) and the cosine of its two
\* rows.  fit_transform raises when no term is left.  Every term of the
\* vocabulary has a positive weight in the rows of the documents it occurs in,
\* so the cosine is 0.0 exactly when no term of the vocabulary occurs in
\* both; a positive cosine is given as the Jaccard overlap of the two rows.
TfidfCosine(resume_text, job_description) ==
    LET cosine(vocabulary, row1, row2) ==
            [raised |-> vocabulary = {},
             similarity |->
                 IF row1 \cap row2 = {} THEN 0
                 ELSE Ratio(Cardinality(row1 \cap row2), Cardinality(row1 \cup row2))]
        rows(vocabulary) ==
            cosine(vocabulary, vocabulary \cap TfidfTerms(resume_text),
                   vocabulary \cap TfidfTerms(job_description))
    IN rows(TfidfVocabulary(<<resume_text, job_description>>))

(***************************************************************************)
(* The score (ATSScorer.analyze, step 8)                                   *)
(***************************************************************************)
\* weights that favour the keywords
weightsKeywordHeavy ==
    [keyword_match |-> 30, content_similarity |-> 20, skills_coverage |-> 20,
     experience_quality |-> 15, context_alignment |-> 10, section_structure |-> 5]

\* the weights, in per cent
weights ==
    [keyword_match |-> 25, content_similarity |-> 25, skills_coverage |-> 20,
     experience_quality |-> 15, context_alignment |-> 10, section_structure |-> 5]

Components == DOMAIN weights

\* sum(section_analysis.values()) / len(section_analysis)
section_completeness(section_analysis) ==
    Ratio(Cardinality({sec \in DOMAIN section_analysis : section_analysis[sec]}),
          Cardinality(DOMAIN section_analysis))

\* a version of ContentSimilarity that takes every semantic score but 0.0
ContentSimilarityAnySign(semantic_score, tfidf_score) ==
    IF semantic_score # 0 THEN semantic_score ELSE tfidf_score

\* a version of ContentSimilarity that always takes the semantic score
ContentSimilaritySemanticOnly(semantic_score, tfidf_score) == semantic_score

\* semantic_score if semantic_score > 0 else tfidf_score
ContentSimilarity(semantic_score, tfidf_score) ==
    IF semantic_score > 0 THEN semantic_score ELSE tfidf_score

\* normalized_scores, each in Unit-ths; total_coverage comes in hundredths of
\* a per cent
NormalizedScores(a) ==
    [keyword_match |-> a.keyword_match_rate,
     content_similarity |-> ContentSimilarity(a.semantic_score, a.tfidf_score),
     skills_coverage |-> a.skills_analysis.total_coverage * (Unit \div 10000),
     experience_quality |->
         a.experience_analysis.experience_strength_score * (Unit \div 100),
     context_alignment |-> a.context_analysis.average_context_match,
     section_structure |-> section_completeness(a.section_analysis)]

\* len(resume_text) below which the score loses ten points
ShortResumeLimit == 500

\* a version of Adjustments whose metric bonus is smaller for five metrics
\* than for three
AdjustmentsSwappedBonus(experience_analysis, section_analysis, resume_length) ==
      (IF experience_analysis.metric_count >= 5 THEN 2
       ELSE IF experience_analysis.metric_count >= 3 THEN 3 ELSE 0)
    + (IF experience_analysis.action_verb_count >= 15 THEN 2 ELSE 0)
    - (IF resume_length < ShortResumeLimit THEN 10 ELSE 0)
    - (IF ~section_analysis["experience"] THEN 5 ELSE 0)
    - (IF ~section_analysis["skills"] THEN 5 ELSE 0)

\* a version of Adjustments without the penalty of a short resume
AdjustmentsAnyLength(experience_analysis, section_analysis, resume_length) ==
      (IF experience_analysis.metric_count >= 5 THEN 3
       ELSE IF experience_analysis.metric_count >= 3 THEN 2 ELSE 0)
    + (IF experience_analysis.action_verb_count >= 15 THEN 2 ELSE 0)
    - (IF ~section_analysis["experience"] THEN 5 ELSE 0)
    - (IF ~section_analysis["skills"] THEN 5 ELSE 0)

\* the bonuses and penalties, in points
Adjustments(experience_analysis, section_analysis, resume_length) ==
      (IF experience_analysis.metric_count >= 5 THEN 3
       ELSE IF experience_analysis.metric_count >= 3 THEN 2 ELSE 0)
    + (IF experience_analysis.action_verb_count >= 15 THEN 2 ELSE 0)
    - (IF resume_length < ShortResumeLimit THEN 10 ELSE 0)
    - (IF ~section_analysis["experience"] THEN 5 ELSE 0)
    - (IF ~section_analysis["skills"] THEN 5 ELSE 0)

\* sum(normalized_scores[component] * weight ...) * 100, in Unit-ths of a
\* point
WeightedSum(normalized_scores) ==
      normalized_scores.keyword_match * weights.keyword_match
    + normalized_scores.content_similarity * weights.content_similarity
    + normalized_scores.skills_coverage * weights.skills_coverage
    + normalized_scores.experience_quality * weights.experience_quality
    + normalized_scores.context_alignment * weights.context_alignment
    + normalized_scores.section_structure * weights.section_structure

\* a version of ClampScore that only truncates
ClampScoreUnclamped(raw) ==
    IF raw >= 0 THEN raw \div Unit ELSE -((-raw) \div Unit)

\* int(min(100, max(0, ats_score)))
ClampScore(raw) == Min(100 * Unit, Max(0, raw)) \div Unit

\* the score of the signals a = [keyword_match_rate, semantic_score,
\* tfidf_score, skills_analysis, experience_analysis, context_analysis,
\* section_analysis, resume_length]: normalized_scores, ats_score before it
\* is clamped (raw, in Unit-ths of a point) and ats_score
Score(a) ==
    LET normalized_scores == NormalizedScores(a)
        raw == WeightedSum(normalized_scores)
               + Unit * Adjustments(a.experience_analysis, a.section_analysis,
                                    a.resume_length)
    IN [normalized_scores |-> normalized_scores, raw |-> raw,
        ats_score |-> ClampScore(raw)]

(***************************************************************************)
(* Suggestions (ATSScorer.generate_suggestions).  A suggestion is named by *)
(* the opening words of its text; an analysis that is None is <<>>, one    *)
(* that is given is <<the dictionary>>.  total_coverage comes in           *)
(* hundredths of a per cent, the rates in Unit-ths.                        *)
(***************************************************************************)
\* a version of generate_suggestions that gives its final advice first
generate_suggestionsAdviceFirst(missing_keywords, section_analysis, match_rate, ats_score, experience_analysis, skills_analysis, context_analysis) ==
    LET tip(fires, name) == IF fires THEN <<name>> ELSE <<>>
        given(analysis) == analysis # <<>>
        critical_keywords ==
            LET long(kw) == Len(kw) > 3
            IN Filter(SubSeq(missing_keywords, 1, Min(10, Len(missing_keywords))), long)
        lead == IsSubstring("lead", Lower(Join(missing_keywords)))
        tier ==
            IF ats_score >= 90 THEN "outstanding"
            ELSE IF ats_score >= 80 THEN "excellent match"
            ELSE IF ats_score >= 70 THEN "good alignment"
            ELSE IF ats_score >= 60 THEN "moderate match"
            ELSE IF ats_score >= 50 THEN "below average alignment"
            ELSE "low compatibility"
        experience ==
            IF given(experience_analysis)
            THEN LET e == experience_analysis[1]
                 IN tip(e.metric_count < 3, "add quantifiable achievements")
                    \o tip(e.action_verb_count < 10, "use more action verbs")
                    \o tip(e.leadership_indicators = 0 /\ lead, "emphasize leadership")
                    \o tip(e.experience_strength_score < 50, "strengthen descriptions")
            ELSE <<>>
        skills ==
            IF given(skills_analysis)
            THEN tip(skills_analysis[1].total_coverage < 5000, "critical skill match")
                 \o tip(skills_analysis[1].missing_skills # {}, "add key skills")
            ELSE <<>>
        context ==
            IF given(context_analysis)
            THEN tip(5 * context_analysis[1].average_context_match < 2 * Unit,
                     "align phrasing")
                 \o tip(context_analysis[1].well_contextualized_keywords < 5,
                        "use job terminology")
            ELSE <<>>
        keywords ==
            IF Len(critical_keywords) >= 5 THEN <<"high-priority keywords">>
            ELSE tip(critical_keywords # <<>>, "important keywords")
        sections ==
            tip(\E sec \in DOMAIN section_analysis : ~section_analysis[sec],
                "add missing sections")
            \o tip(~section_analysis["skills"], "create skills section")
            \o tip(~section_analysis["achievements"], "add achievements section")
        rate ==
            IF 10 * match_rate < 3 * Unit THEN <<"very low keyword overlap">>
            ELSE tip(2 * match_rate < Unit, "boost keyword match rate")
        formatting ==
            <<"standard section headers", "avoid tables", "standard fonts",
              "mirror the language">>
    IN tip(ats_score < 70, "pro tip") \o <<tier>> \o experience \o skills
       \o context \o keywords \o sections \o rate \o formatting

generate_suggestions(missing_keywords, section_analysis, match_rate, ats_score, experience_analysis, skills_analysis, context_analysis) ==
    LET tip(fires, name) == IF fires THEN <<name>> ELSE <<>>
        given(analysis) == analysis # <<>>
        critical_keywords ==
            LET long(kw) == Len(kw) > 3
            IN Filter(SubSeq(missing_keywords, 1, Min(10, Len(missing_keywords))), long)
        lead == IsSubstring("lead", Lower(Join(missing_keywords)))
        tier ==
            IF ats_score >= 90 THEN "outstanding"
            ELSE IF ats_score >= 80 THEN "excellent match"
            ELSE IF ats_score >= 70 THEN "good alignment"
            ELSE IF ats_score >= 60 THEN "moderate match"
            ELSE IF ats_score >= 50 THEN "below average alignment"
            ELSE "low compatibility"
        experience ==
            IF given(experience_analysis)
            THEN LET e == experience_analysis[1]
                 IN tip(e.metric_count < 3, "add quantifiable achievements")
                    \o tip(e.action_verb_count < 10, "use more action verbs")
                    \o tip(e.leadership_indicators = 0 /\ lead, "emphasize leadership")
                    \o tip(e.experience_strength_score < 50, "strengthen descriptions")
            ELSE <<>>
        skills ==
            IF given(skills_analysis)
            THEN tip(skills_analysis[1].total_coverage < 5000, "critical skill match")
                 \o tip(skills_analysis[1].missing_skills # {}, "add key skills")
            ELSE <<>>
        context ==
            IF given(context_analysis)
            THEN tip(5 * context_analysis[1].average_context_match < 2 * Unit,
                     "align phrasing")
                 \o tip(context_analysis[1].well_contextualized_keywords < 5,
                        "use job terminology")
            ELSE <<>>
        keywords ==
            IF Len(critical_keywords) >= 5 THEN <<"high-priority keywords">>
            ELSE tip(critical_keywords # <<>>, "important keywords")
        sections ==
            tip(\E sec \in DOMAIN section_analysis : ~section_analysis[sec],
                "add missing sections")
            \o tip(~section_analysis["skills"], "create skills section")
            \o tip(~section_analysis["achievements"], "add achievements section")
        rate ==
            IF 10 * match_rate < 3 * Unit THEN <<"very low keyword overlap">>
            ELSE tip(2 * match_rate < Unit, "boost keyword match rate")
        formatting ==
            <<"standard section headers", "avoid tables", "standard fonts",
              "mirror the language">>
    IN <<tier>> \o experience \o skills \o context \o keywords \o sections
       \o rate \o formatting \o tip(ats_score < 70, "pro tip")

(***************************************************************************)
(* The environment: the tagger (spacy.load("en_core_web_sm")), the         *)
(* sentence encoder (SentenceTransformer('all-MiniLM-L6-v2')) are          *)
(* libraries the scorer loads at run time.  Their code is no part of the   *)
(* repository, so each is one of a few profiles fixed when the process     *)
(* starts.  scikit-learn can be imported.                                  *)
(***************************************************************************)
\* the taggers that return a document; "raises" is a tagger whose call raises
TaggerProfiles == {"nouns", "verbs"}

\* the words the "verbs" tagger classes as verbs, the words both taggers class
\* as adjectives; both class digits as numbers and every other word as a noun
TaggerVerbs ==
    {"building", "required", "enjoys", "planting", "trimming", "led",
     "improved", "managed", "developed", "reduced", "built"}

TaggerAdjectives == {"scalable", "senior", "professional", "key"}

\* doc = nlp(text): the tokens with pos_ and is_stop, and the noun chunks as
\* the maximal runs of nouns, proper nouns and adjectives that only white
\* space separates
Tag(profile, text) ==
    LET isNumber(w) == \A i \in 1..Len(w) : IsDigit(CharAt(w, i))
        pos(w) == IF isNumber(w) THEN "NUM"
                  ELSE IF w \in stop_words THEN "ADP"
                  ELSE IF profile = "verbs" /\ w \in TaggerVerbs THEN "VERB"
                  ELSE IF w \in TaggerAdjectives THEN "ADJ"
                  ELSE "NOUN"
        token(w) == [text |-> w, pos |-> pos(w), is_stop |-> w \in stop_words]
        doc(runs, tokens) ==
            LET n == Len(runs)
                nominal(k) == tokens[k].pos \in {"NOUN", "PROPN", "ADJ"}
                link(k) == /\ k < n /\ nominal(k) /\ nominal(k + 1)
                           /\ \A q \in (runs[k][2] + 1)..(runs[k + 1][1] - 1) :
                                  IsSpace(CharAt(text, q))
                endOf(k) == CHOOSE e \in k..n :
                               ~link(e) /\ \A m \in k..(e - 1) : link(m)
                chunks(starts) ==
                    AsSeq([i \in 1..Len(starts) |->
                        SubSeq(text, runs[starts[i]][1], runs[endOf(starts[i])][2])])
            IN [tokens |-> tokens,
                chunks |-> chunks(SortedSeq({k \in 1..n :
                                      nominal(k) /\ (k = 1 \/ ~link(k - 1))}))]
        tagged(runs) ==
            doc(runs, AsSeq([k \in 1..Len(runs) |->
                          token(SubSeq(text, runs[k][1], runs[k][2]))]))
    IN tagged(Runs(text, IsWordChar))

\* sentence_model.encode of both texts and the cosine of the embeddings, per
\* encoder: "similar" finds different texts alike, "unrelated" does not
EncoderProfiles == {"similar", "unrelated", "raises"}

SemanticCosine(encoder, resume_text, job_description) ==
    IF resume_text = job_description THEN Unit
    ELSE IF encoder = "similar" THEN (62 * Unit) \div 100
    ELSE -((5 * Unit) \div 100)

(***************************************************************************)
(* The lazy resources of one ATSScorer                                     *)
(***************************************************************************)
\* the count up to which the runs of an initialization are told apart
LoadCap == 2

\* ATSScorer.__init__.  fitted_on is the state fit_transform leaves in the
\* vectorizer: the two documents its vocabulary and weights were last fitted
\* on.  runs counts, for each resource, how often its initialization has run,
\* up to LoadCap.
NewScorer ==
    [nlp |-> "None", use_fallback |-> FALSE, sentence_model |-> "None",
     tfidf_vectorizer |-> "None", fitted_on |-> <<>>,
     runs |-> [nlp |-> 0, sentence_model |-> 0, tfidf_vectorizer |-> 0]]

Counted(sc, resource) ==
    [sc EXCEPT !.runs[resource] = Min(LoadCap, @ + 1)]

\* _ensure_nlp_loaded; load_ok tells whether spacy.load returns
ensure_nlp_loaded(sc, load_ok) ==
    IF sc.nlp = "None"
    THEN IF load_ok THEN [Counted(sc, "nlp") EXCEPT !.nlp = "Loaded"]
         ELSE [Counted(sc, "nlp") EXCEPT !.nlp = "None", !.use_fallback = TRUE]
    ELSE sc

\* _ensure_tfidf_loaded, where scikit-learn can be imported
ensure_tfidf_loaded(sc) ==
    IF sc.tfidf_vectorizer = "None"
    THEN [Counted(sc, "tfidf_vectorizer") EXCEPT !.tfidf_vectorizer = "Created"]
    ELSE sc

\* a version of _ensure_embeddings_loaded that leaves None after a failed load
ensure_embeddings_loadedUnmarked(sc, load_ok) ==
    IF sc.sentence_model = "None"
    THEN [Counted(sc, "sentence_model") EXCEPT
              !.sentence_model = IF load_ok THEN "Model" ELSE "None"]
    ELSE sc

\* _ensure_embeddings_loaded; load_ok tells whether SentenceTransformer(...)
\* returns
ensure_embeddings_loaded(sc, load_ok) ==
    IF sc.sentence_model = "None"
    THEN [Counted(sc, "sentence_model") EXCEPT
              !.sentence_model = IF load_ok THEN "Model" ELSE "False"]
    ELSE sc

\* the branch extract_keywords takes
KeywordStrategy(sc, tagger) ==
    IF sc.nlp = "None" THEN "fallback"
    ELSE IF tagger = "raises" THEN "untagged"
    ELSE tagger

\* whether extract_skills reads noun chunks, and whose
SkillStrategy(sc, tagger) ==
    IF sc.nlp # "None" /\ ~sc.use_fallback /\ tagger # "raises" THEN tagger
    ELSE "regex"

extract_keywords(strategy, text, top_n) ==
    IF strategy = "fallback" THEN ExtractKeywordsFallback(text, top_n)
    ELSE IF strategy = "untagged" THEN ExtractKeywordsUntagged(text, top_n)
    ELSE ExtractKeywordsTagged(Tag(strategy, Lower(text)), top_n)

extract_skills(strategy, text) ==
    IF strategy = "regex" THEN ExtractSkillsRegex(text)
    ELSE ExtractSkillsTagged(text, Tag(strategy, Lower(text)))

(***************************************************************************)
(* The documents of the model                                              *)
(***************************************************************************)
\* SYSTEM_CHECK.py, TEST 1
ResumeScenario ==
    "Python Developer with 5 years experience in Django REST frameworks "
    \o "building scalable web applications. Experience with PostgreSQL, "
    \o "Redis, and AWS deployment."

JobScenario ==
    "Senior Python Developer Required with Django experience and cloud "
    \o "deployment knowledge"

ResumeSections ==
    "Professional Experience: Led a team of 12 people and improved sales "
    \o "by 40%. Key Skills: Python, Django, SQL. Education: BSc."

ResumeGardener ==
    "Gardener who enjoys planting roses and trimming hedges across city "
    \o "parks every summer"

ResumeLong ==
    "Work Experience: Managed a team of 8 people and delivered 3 projects. "
    \o "Developed Python and Django services on AWS and reduced costs by "
    \o "25%. Improved deployment time by 40% and increased revenue by "
    \o "$50,000. Led the migration to PostgreSQL for 10 clients over 2 "
    \o "years. Technical Skills: Python, Django, PostgreSQL, Redis, Docker, "
    \o "AWS, Git. Education: BSc in Computer Science. Projects: built a "
    \o "cloud deployment pipeline and coordinated the release of a web "
    \o "application used by 5000 users, with knowledge shared across teams."

ResumeBlank == "   "

ResumeBrief == "Python developer"

\* a job description made of stop words
JobStopWords == "the and for with from into about above below"

JobBrief == "Python developer"

JobTiny == "Dev"

\* ten characters or more, three of them not white space
JobPadded == "Dev          "

Resumes ==
    {ResumeScenario, ResumeSections, ResumeGardener, ResumeLong, ResumeBlank,
     ResumeBrief, ""}

Jobs == {JobScenario, JobStopWords, JobBrief, JobTiny, JobPadded}

\* TextParser.extract_text followed by TextParser.clean_text
clean_text(text) == Strip(Join(Split(Strip(text))))

\* the lengths ResumeAnalyzer.analyze_resume asks for
MinResumeLength == 50

MinJobLength == 20

\* the texts ATSScorer.analyze may be called with: the resumes, as sent or as
\* parsed from an upload, and the job descriptions
ResumeTexts == Resumes \cup {clean_text(d) : d \in Resumes}

JobTexts == Jobs

\* the requests made to the service
ServiceResumes == {ResumeScenario, ResumeGardener, ResumeBlank, ResumeBrief, ""}

ServiceJobs == {JobScenario, JobBrief, JobTiny, JobPadded}

Texts == ResumeTexts \cup JobTexts

(***************************************************************************)
(* The steps of ATSScorer.analyze on the documents of the model, each      *)
(* computed once per document or pair of documents                         *)
(***************************************************************************)
\* len(text.strip()), the text a parsed upload yields, normalize_text(text)
Submitted == Resumes \cup Jobs \cup {clean_text(d) : d \in Resumes}

StrippedLength == AsTable([d \in Submitted |-> Len(Strip(d))])

ParsedOf == AsTable([d \in Resumes |-> clean_text(d)])

NormalizedOf == AsTable([d \in Texts |-> normalize_text(d)])

KeywordStrategies == {"fallback", "untagged"} \cup TaggerProfiles

SkillStrategies == {"regex"} \cup TaggerProfiles

\* extract_keywords(normalize_text(text), top_n=100)
TopKeywords == 100

KeywordsOf ==
    AsTable([strategy \in KeywordStrategies |->
        AsTable([d \in Texts |->
            extract_keywords(strategy, NormalizedOf[d], TopKeywords)])])

SkillsOf ==
    AsTable([strategy \in SkillStrategies |->
        AsTable([d \in Texts |-> extract_skills(strategy, d)])])

ExperienceOf == AsTable([d \in ResumeTexts |-> analyze_experience_depth(d)])

SectionsOf == AsTable([d \in ResumeTexts |-> detect_sections(d)])

\* a table over the pairs of a resume and a job description
PairTable(entry(_, _)) ==
    AsTable([r \in ResumeTexts |-> AsTable([j \in JobTexts |-> entry(r, j)])])

MatchesOf ==
    LET matches(keywords) ==
            AsTable([rs \in KeywordStrategies |-> AsTable([js \in KeywordStrategies |->
                LET entry(r, j) == find_keyword_matches(keywords[rs][r], keywords[js][j])
                IN PairTable(entry)])])
    IN matches(KeywordsOf)

SkillsDepthOf ==
    LET depth(skills) ==
            AsTable([rs \in SkillStrategies |-> AsTable([js \in SkillStrategies |->
                LET entry(r, j) == analyze_skills_depth(skills[rs][r], skills[js][j])
                IN PairTable(entry)])])
    IN depth(SkillsOf)

ContextOf ==
    AsTable([js \in KeywordStrategies |->
        LET summary(full) ==
                [average_context_match |-> full.average_context_match,
                 well_contextualized_keywords |-> full.well_contextualized_keywords]
            entry(r, j) == summary(analyze_keyword_context(r, j, KeywordsOf[js][j]))
        IN PairTable(entry)])

TfidfOf ==
    LET entry(r, j) == TfidfCosine(NormalizedOf[r], NormalizedOf[j])
    IN PairTable(entry)

(***************************************************************************)
(* ATSScorer.analyze                                                       *)
(***************************************************************************)
\* round(value * 100, 2) of a real given in Unit-ths, in hundredths
RoundHundredths(value) ==
    LET size == IF value >= 0 THEN value ELSE -value
        step == Unit \div 10000
        q == size \div step
        r == size % step
        rounded == IF 2 * r > step \/ (2 * r = step /\ q % 2 = 1) THEN q + 1 ELSE q
    IN IF value >= 0 THEN rounded ELSE -rounded

\* a version of Take that keeps nothing
TakeNone(items, limit) == {}

\* items[:limit] of a list whose order the code does not fix
Take(items, limit) ==
    IF Cardinality(items) <= limit THEN items
    ELSE CHOOSE part \in SUBSET items : Cardinality(part) = limit

\* a version of calculate_tfidf_similarity without its except clause
calculate_tfidf_similarityUncaught(sc, env_, resume_text, job_description) ==
    LET returned(cosine) ==
            [scorer |-> ensure_tfidf_loaded(sc), value |-> cosine.similarity,
             raised |-> cosine.raised]
    IN returned(TfidfOf[resume_text][job_description])

\* calculate_tfidf_similarity: the scorer it leaves, the value it returns and
\* whether it raises
calculate_tfidf_similarity(sc, env_, resume_text, job_description) ==
    LET returned(loaded, cosine, normalized) ==
            IF cosine.raised
            THEN [scorer |-> loaded, value |-> 0, raised |-> FALSE]
            ELSE [scorer |-> [loaded EXCEPT
                                  !.tfidf_vectorizer = "Fitted",
                                  !.fitted_on = <<normalized[resume_text],
                                                  normalized[job_description]>>],
                  value |-> cosine.similarity, raised |-> FALSE]
    IN returned(ensure_tfidf_loaded(sc), TfidfOf[resume_text][job_description],
                NormalizedOf)

\* calculate_semantic_similarity; embed_ok tells whether the encoder loads
calculate_semantic_similarity(sc, env_, embed_ok, resume_text, job_description) ==
    LET returned(loaded, normalized) ==
            IF loaded.sentence_model = "Model" /\ env_.encoder # "raises"
            THEN [scorer |-> loaded,
                  value |-> SemanticCosine(env_.encoder, normalized[resume_text],
                                           normalized[job_description]),
                  raised |-> FALSE]
            ELSE calculate_tfidf_similarity(loaded, env_, resume_text, job_description)
    IN returned(ensure_embeddings_loaded(sc, embed_ok), NormalizedOf)

\* the four calls of _ensure_nlp_loaded of one analysis
Attempts == 4

\* the elements of a set, in one order
RECURSIVE ListOf(_)
ListOf(S) ==
    IF S = {} THEN <<>>
    ELSE LET head == CHOOSE e \in S : TRUE
         IN <<head>> \o ListOf(S \ {head})

\* the orders find_keyword_matches may give the missing keywords, as far as
\* generate_suggestions tells them apart: one for each number of keywords
\* longer than three characters that the first ten can hold
MissingOrders(missing) ==
    LET orders(long, short, first) ==
            {SubSeq(long, 1, ahead) \o SubSeq(short, 1, first - ahead)
                 \o SubSeq(long, ahead + 1, Len(long))
                 \o SubSeq(short, first - ahead + 1, Len(short)) :
             ahead \in Max(0, first - Len(short))..Min(first, Len(long))}
    IN orders(ListOf({kw \in missing : Len(kw) > 3}),
              ListOf({kw \in missing : Len(kw) <= 3}),
              Min(10, Cardinality(missing)))

\* suggestions = self.generate_suggestions(...) in analyze: the lists it may
\* return.  They are a function of the analyses and of ats_score, and are
\* computed from them where a property reads them, not kept in the record
\* of the call.
AnalyzeSuggestions(matches, skills_analysis, experience_analysis, context_analysis, section_analysis, ats_score) ==
    {generate_suggestions(missing_keywords, section_analysis, matches.match_rate,
                          ats_score, <<experience_analysis>>, <<skills_analysis>>,
                          <<context_analysis>>) :
        missing_keywords \in MissingOrders(matches.missing)}

\* what analyze returns for the strategies its extract_keywords and
\* extract_skills calls took and the values its two similarity calls returned:
\* the dictionary, and what ran
Results(resume_strategy, job_strategy, resume_skill_strategy, job_skill_strategy, semantic_value, tfidf_value, resume_text, job_description) ==
    LET returned(resume_keywords, job_keywords, matches, skills_analysis, experience_analysis, context_analysis, section_analysis, score) ==
            [ran |-> [resume_keywords |-> resume_strategy,
                      job_keywords |-> job_strategy,
                      resume_skills |-> resume_skill_strategy,
                      job_skills |-> job_skill_strategy,
                      semantic_score |-> semantic_value,
                      tfidf_score |-> tfidf_value,
                      normalized_scores |-> score.normalized_scores],
             result |->
                 [ats_score |-> score.ats_score,
                  keyword_match_rate |-> KeywordMatchRate(matches),
                  semantic_similarity |->
                      IF semantic_value > 0 THEN <<RoundHundredths(semantic_value)>>
                      ELSE <<>>,
                  tfidf_similarity |-> RoundHundredths(tfidf_value),
                  content_similarity_score |->
                      RoundHundredths(ContentSimilarity(semantic_value, tfidf_value)),
                  matched_keywords |-> Take(matches.matched, 25),
                  missing_keywords |-> Take(matches.missing, 20),
                  total_job_keywords |-> Len(job_keywords),
                  total_resume_keywords |-> Len(resume_keywords),
                  skills_analysis |-> skills_analysis,
                  experience_analysis |-> experience_analysis,
                  context_analysis |-> context_analysis,
                  section_analysis |-> section_analysis,
                  resume_length |-> Len(resume_text),
                  job_description_length |-> Len(job_description)]]
        scored(resume_keywords, job_keywords, matches, skills_analysis, experience_analysis, context_analysis, section_analysis) ==
            returned(resume_keywords, job_keywords, matches, skills_analysis,
                     experience_analysis, context_analysis, section_analysis,
                     Score([keyword_match_rate |-> matches.match_rate,
                            semantic_score |-> semantic_value,
                            tfidf_score |-> tfidf_value,
                            skills_analysis |-> skills_analysis,
                            experience_analysis |-> experience_analysis,
                            context_analysis |-> context_analysis,
                            section_analysis |-> section_analysis,
                            resume_length |-> Len(resume_text)]))
    IN scored(KeywordsOf[resume_strategy][resume_text],
              KeywordsOf[job_strategy][job_description],
              MatchesOf[resume_strategy][job_strategy][resume_text][job_description],
              SkillsDepthOf[resume_skill_strategy][job_skill_strategy][resume_text][job_description],
              ExperienceOf[resume_text],
              ContextOf[job_strategy][resume_text][job_description],
              SectionsOf[resume_text])

\* what analyze returns once its last step has run on the scorer sc4
AnalyzeDone(sc4, semantic, tfidf, returned) ==
    [scorer |-> sc4,
     raised |-> semantic.raised \/ tfidf.raised,
     ran |-> returned.ran,
     result |-> returned.result]

\* job_skills = self.extract_skills(job_description), and the rest of analyze
AnalyzeJobSkills(sc4, env_, semantic, tfidf, resume_strategy, job_strategy, resume_skill_strategy, resume_text, job_description) ==
    AnalyzeDone(sc4, semantic, tfidf,
                Results(resume_strategy, job_strategy, resume_skill_strategy,
                        SkillStrategy(sc4, env_.tagger), semantic.value,
                        tfidf.value, resume_text, job_description))

\* resume_skills = self.extract_skills(resume_text), and what follows it
AnalyzeResumeSkills(sc3, env_, first_ok, semantic, tfidf, resume_strategy, job_strategy, resume_text, job_description) ==
    AnalyzeJobSkills(ensure_nlp_loaded(sc3, first_ok <= 4), env_, semantic, tfidf,
                     resume_strategy, job_strategy,
                     SkillStrategy(sc3, env_.tagger), resume_text, job_description)

\* tfidf_score = self.calculate_tfidf_similarity(...), and what follows it
AnalyzeTfidf(env_, first_ok, semantic, tfidf, resume_strategy, job_strategy, resume_text, job_description) ==
    AnalyzeResumeSkills(ensure_nlp_loaded(tfidf.scorer, first_ok <= 3), env_,
                        first_ok, semantic, tfidf, resume_strategy, job_strategy,
                        resume_text, job_description)

\* semantic_score = self.calculate_semantic_similarity(...), and what follows it
AnalyzeSemantic(env_, first_ok, semantic, resume_strategy, job_strategy, resume_text, job_description) ==
    AnalyzeTfidf(env_, first_ok, semantic,
                 calculate_tfidf_similarity(semantic.scorer, env_,
                                            resume_text, job_description),
                 resume_strategy, job_strategy, resume_text, job_description)

\* job_keywords = self.extract_keywords(job_normalized, top_n=100), and what
\* follows it
AnalyzeJobKeywords(sc2, env_, first_ok, embed_ok, resume_strategy, resume_text, job_description) ==
    AnalyzeSemantic(env_, first_ok,
                    calculate_semantic_similarity(sc2, env_, embed_ok,
                                                  resume_text, job_description),
                    resume_strategy, KeywordStrategy(sc2, env_.tagger),
                    resume_text, job_description)

\* resume_keywords = self.extract_keywords(resume_normalized, top_n=100), and
\* what follows it
AnalyzeResumeKeywords(sc1, env_, first_ok, embed_ok, resume_text, job_description) ==
    AnalyzeJobKeywords(ensure_nlp_loaded(sc1, first_ok <= 2), env_, first_ok,
                       embed_ok, KeywordStrategy(sc1, env_.tagger),
                       resume_text, job_description)

\* the 'suggestions' of the dictionary of one call of analyze, from what the
\* record of the call says ran
SuggestionsOf(scored) ==
    AnalyzeSuggestions(
        MatchesOf[scored.ran.resume_keywords][scored.ran.job_keywords]
                 [scored.resume_text][scored.job_description],
        SkillsDepthOf[scored.ran.resume_skills][scored.ran.job_skills]
                     [scored.resume_text][scored.job_description],
        ExperienceOf[scored.resume_text],
        ContextOf[scored.ran.job_keywords][scored.resume_text][scored.job_description],
        SectionsOf[scored.resume_text],
        scored.result.ats_score)

\* ATSScorer.analyze on the scorer sc.  first_ok is the first of the Attempts
\* loads of the tagger that succeeds (Attempts + 1: none does).  The value is
\* the scorer the call leaves, whether it raises, the dictionary it returns
\* and what ran.  The suggestions of the dictionary are those of
\* generate_suggestions for its analyses.  Each step is given the scorer the
\* step before it left.
analyze(sc, env_, first_ok, embed_ok, resume_text, job_description) ==
    AnalyzeResumeKeywords(ensure_nlp_loaded(sc, first_ok <= 1), env_, first_ok,
                          embed_ok, resume_text, job_description)

(***************************************************************************)
(* ResumeAnalyzer.analyze_resume and the two routes                        *)
(***************************************************************************)
\* the outcome of a call that did not reach ATSScorer.analyze
Rejected(an, status, outcome) ==
    [analyzer |-> an, status |-> status, outcome |-> outcome,
     invoked |-> FALSE, scored |-> <<>>]

\* the outcome of a call of ATSScorer.analyze
Returned(done, resume_text, job_description) ==
    IF done.raised
    THEN [analyzer |-> <<done.scorer>>, status |-> 0, outcome |-> "Exception",
          invoked |-> TRUE, scored |-> <<>>]
    ELSE [analyzer |-> <<done.scorer>>, status |-> 0, outcome |-> "result",
          invoked |-> TRUE,
          scored |-> <<[resume_text |-> resume_text,
                        job_description |-> job_description,
                        ran |-> done.ran, result |-> done.result]>>]

\* a version of analyze_resume without its two checks
analyze_resumeUnchecked(an, env_, first_ok, embed_ok, resume_text, job_description) ==
    Returned(analyze(an[1], env_, first_ok, embed_ok, resume_text, job_description),
             resume_text, job_description)

\* ResumeAnalyzer.analyze_resume on the analyzer an = <<scorer>>
analyze_resume(an, env_, first_ok, embed_ok, resume_text, job_description) ==
    IF StrippedLength[resume_text] < MinResumeLength
    THEN Rejected(an, 0, "ValueError")
    ELSE IF StrippedLength[job_description] < MinJobLength
    THEN Rejected(an, 0, "ValueError")
    ELSE Returned(analyze(an[1], env_, first_ok, embed_ok,
                          resume_text, job_description),
                  resume_text, job_description)

\* routes.get_analyzer: the analyzer of the module, made on first use
get_analyzer(an) == IF an = <<>> THEN <<NewScorer>> ELSE an

\* the lengths the routes ask for: min_length of job_description, and the
\* checks of the stripped job description and resume
FieldMinLength == 10

RouteMinJobLength == 10

RouteMinResumeLength == 50

\* the try: block both routes wrap analyze_resume in
Responded(done) ==
    IF done.outcome = "result"
    THEN [done EXCEPT !.status = 200]
    ELSE [done EXCEPT !.status = 500, !.outcome = "HTTPException"]

\* get_analyzer().analyze_resume(...) inside that block
RouteAnalysis(an, env_, first_ok, embed_ok, resume_text, job_description) ==
    Responded(analyze_resume(get_analyzer(an), env_, first_ok, embed_ok,
                             resume_text, job_description))

\* the uploads of POST /analyze: no file, a file that parses to the text sent,
\* a file of another format, a file whose parser raises
Uploads == {"none", "parsed", "unsupported", "unreadable"}

\* POST /analyze from the check of the resume text on: made is the analyzer
\* after the parsing of the file, if any
CheckedResume(made, env_, first_ok, embed_ok, parsed_resume, job_description) ==
    IF StrippedLength[parsed_resume] < RouteMinResumeLength
    THEN Rejected(made, 400, "HTTPException")
    ELSE RouteAnalysis(made, env_, first_ok, embed_ok, parsed_resume, job_description)

\* POST /analyze; with a file, resume is the text of the file
post_analyze(an, env_, first_ok, embed_ok, upload, resume, job_description) ==
    IF Len(job_description) < FieldMinLength
    THEN Rejected(an, 422, "RequestValidationError")
    ELSE IF upload = "none" /\ resume = "" THEN Rejected(an, 400, "HTTPException")
    ELSE IF upload = "unsupported" THEN Rejected(an, 400, "HTTPException")
    ELSE IF upload = "unreadable"
    THEN Rejected(get_analyzer(an), 400, "HTTPException")
    ELSE CheckedResume(IF upload = "parsed" THEN get_analyzer(an) ELSE an,
                       env_, first_ok, embed_ok,
                       IF upload = "parsed" THEN ParsedOf[resume] ELSE resume,
                       job_description)

\* POST /analyze-json
post_analyze_json(an, env_, first_ok, embed_ok, resume_text, jd) ==
    IF Len(jd) < FieldMinLength THEN Rejected(an, 422, "RequestValidationError")
    ELSE IF StrippedLength[jd] < RouteMinJobLength
    THEN Rejected(an, 400, "HTTPException")
    ELSE IF StrippedLength[resume_text] < RouteMinResumeLength
    THEN Rejected(an, 400, "HTTPException")
    ELSE RouteAnalysis(an, env_, first_ok, embed_ok, resume_text, jd)

(***************************************************************************)
(* State                                                                   *)
(***************************************************************************)
VARIABLES
    analyzer,   \* routes._analyzer or the analyzer of a script: <<>> before
                \* it is made, then <<the state of its ATSScorer>>
    env,        \* the tagger and the encoder of this process
    last,       \* the last call and what it returned
    repeat,     \* how the last analysis compares with the one before it
    sig,        \* the signals of a resume, for the score alone
    out,        \* <<the score of sig>>, once computed
    rev,        \* the last revision of sig
    prev_out,   \* <<the score before that revision>>
    kw_in,      \* two keyword lists
    kw_out,     \* <<what find_keyword_matches returns for them>>
    ex_in,      \* a text, a top_n, and the tagger extract_keywords finds
    ex_out,     \* <<the keywords extract_keywords returns>>
    sg_in,      \* the arguments of generate_suggestions
    sg_out,     \* <<the suggestions it returns>>
    shared,     \* routes._analyzer and its scorer, as concurrent requests see them
    req,        \* the requests in flight: where each stands and what it holds
    cx_in,      \* two texts and a keyword list
    cx_out,     \* <<what analyze_keyword_context returns for them>>
    sk_in,      \* two skill lists
    sk_out,     \* <<what analyze_skills_depth returns for them>>
    vb_in,      \* the words of a text
    vb_out,     \* <<what analyze_experience_depth returns for the text>>
    xs,         \* <<an ATSScorer on which the extractors are called>>
    xs_last     \* the last call of an extractor on xs and what it did

vars == <<analyzer, env, last, repeat, sig, out, rev, prev_out, kw_in, kw_out,
          ex_in, ex_out, sg_in, sg_out, shared, req, cx_in, cx_out, sk_in,
          sk_out, vb_in, vb_out, xs, xs_last>>

engine_vars == <<analyzer, env, last, repeat>>

score_vars == <<sig, out, rev, prev_out>>

\* the variables of the specifications of one method each
method_vars == <<cx_in, cx_out, sk_in, sk_out, vb_in, vb_out, xs, xs_last>>

keyword_vars == <<kw_in, kw_out, ex_in, ex_out, method_vars>>

suggest_vars == <<sg_in, sg_out>>

race_vars == <<shared, req>>

Environments == [tagger : TaggerProfiles \cup {"raises"}, encoder : EncoderProfiles]

NoCall ==
    [op |-> "none", upload |-> "none", resume |-> "", job_description |-> "",
     status |-> 0, outcome |-> "none", invoked |-> FALSE, scored |-> <<>>]

NoSignals == [resume_length |-> 0]

NoKeywords == [resume_keywords |-> <<>>, job_keywords |-> <<>>]

EngineIdle ==
    /\ analyzer = <<>>
    /\ env = [tagger |-> "nouns", encoder |-> "similar"]
    /\ last = NoCall
    /\ repeat = "first"

ScoreIdle == sig = NoSignals /\ out = <<>> /\ rev = "none" /\ prev_out = <<>>

MatchIdle == kw_in = NoKeywords /\ kw_out = <<>>

ExtractIdle == ex_in = <<>> /\ ex_out = <<>>

ContextIdle == cx_in = <<>> /\ cx_out = <<>>

SkillsIdle == sk_in = <<>> /\ sk_out = <<>>

VerbsIdle == vb_in = <<>> /\ vb_out = <<>>

ExtractorsIdle == xs = <<>> /\ xs_last = <<>>

MethodsIdle == ContextIdle /\ SkillsIdle /\ VerbsIdle /\ ExtractorsIdle

KeywordsIdle == MatchIdle /\ ExtractIdle /\ MethodsIdle

SuggestIdle == sg_in = <<>> /\ sg_out = <<>>

RaceIdle == shared = <<>> /\ req = <<>>

(***************************************************************************)
(* The service: one process, its analyzer, and the calls made to it        *)
(***************************************************************************)
Init ==
    /\ analyzer = <<>>
    /\ env \in Environments
    /\ last = NoCall
    /\ repeat = "first"
    /\ ScoreIdle
    /\ KeywordsIdle
    /\ SuggestIdle
    /\ RaceIdle

\* whether a call with these texts reaches ATSScorer.analyze
Analyzable(resume_text, job_description) ==
    /\ StrippedLength[resume_text] >= MinResumeLength
    /\ StrippedLength[job_description] >= MinJobLength

\* what the libraries may do during one call: which of the loads of the
\* tagger is the first to succeed (Attempts + 1: none), and whether the
\* encoder loads.  A call that loads nothing has one course.
Courses(an, resume_text, job_description) ==
    LET loading == Analyzable(resume_text, job_description)
        tagger_missing == an = <<>> \/ an[1].nlp = "None"
        encoder_missing == an = <<>> \/ an[1].sentence_model = "None"
    IN [first_ok : IF loading /\ tagger_missing THEN 1..(Attempts + 1) ELSE {1},
        embed_ok : IF loading /\ encoder_missing THEN BOOLEAN ELSE {TRUE}]

\* how an analysis compares with the analysis of the call before it, when both
\* had the same resume and job description: by ats_score, matched_keywords and
\* missing_keywords
Compare(before, after) ==
    IF before = <<>> \/ after = <<>> THEN "first"
    ELSE IF before[1].resume_text # after[1].resume_text THEN "first"
    ELSE IF before[1].job_description # after[1].job_description THEN "first"
    ELSE IF /\ before[1].result.ats_score = after[1].result.ats_score
            /\ before[1].result.matched_keywords = after[1].result.matched_keywords
            /\ before[1].result.missing_keywords = after[1].result.missing_keywords
         THEN "same"
    ELSE "differs"

Record(op, upload, resume, job_description, done) ==
    /\ analyzer' = done.analyzer
    /\ last' = [op |-> op, upload |-> upload, resume |-> resume,
                job_description |-> job_description, status |-> done.status,
                outcome |-> done.outcome, invoked |-> done.invoked,
                scored |-> done.scored]
    /\ repeat' = Compare(last.scored, done.scored)
    /\ UNCHANGED <<env, score_vars, keyword_vars, suggest_vars, race_vars>>

\* analyzer = ResumeAnalyzer()
Construct ==
    /\ analyzer = <<>>
    /\ analyzer' = <<NewScorer>>
    /\ UNCHANGED <<env, last, repeat, score_vars, keyword_vars, suggest_vars,
                   race_vars>>

\* analyzer.analyze_resume(resume, job_description)
AnalyzeResume ==
    /\ analyzer # <<>>
    /\ \E resume \in ServiceResumes, job_description \in ServiceJobs :
          \E course \in Courses(analyzer, resume, job_description) :
             Record("analyze_resume", "none", resume, job_description,
                    analyze_resume(analyzer, env, course.first_ok, course.embed_ok,
                                   resume, job_description))

\* POST /analyze
PostAnalyze ==
    \E upload \in Uploads, job_description \in ServiceJobs :
       \E resume \in IF upload \in {"none", "parsed"} THEN ServiceResumes ELSE {""} :
          \E course \in Courses(analyzer,
                                IF upload = "parsed" THEN ParsedOf[resume] ELSE resume,
                                job_description) :
             Record("analyze", upload, resume, job_description,
                    post_analyze(analyzer, env, course.first_ok, course.embed_ok,
                                 upload, resume, job_description))

\* POST /analyze-json
PostAnalyzeJson ==
    \E resume \in ServiceResumes, job_description \in ServiceJobs :
       \E course \in Courses(analyzer, resume, job_description) :
          Record("analyze-json", "none", resume, job_description,
                 post_analyze_json(analyzer, env, course.first_ok, course.embed_ok,
                                   resume, job_description))

Next == Construct \/ AnalyzeResume \/ PostAnalyze \/ PostAnalyzeJson

Spec == Init /\ [][Next]_vars

(***************************************************************************)
(* The engine alone: one ATSScorer and the calls of analyze made to it,    *)
(* with any resume and any job description                                 *)
(***************************************************************************)
\* what the libraries may do during one call of analyze on the scorer sc
LoadCourses(sc) ==
    [first_ok : IF sc.nlp = "None" THEN 1..(Attempts + 1) ELSE {1},
     embed_ok : IF sc.sentence_model = "None" THEN BOOLEAN ELSE {TRUE}]

InitEngine ==
    /\ analyzer = <<NewScorer>>
    /\ env \in Environments
    /\ last = NoCall
    /\ repeat = "first"
    /\ ScoreIdle
    /\ KeywordsIdle
    /\ SuggestIdle
    /\ RaceIdle

\* scorer.analyze(resume_text, job_description)
Analyze ==
    \E resume_text \in Resumes, job_description \in Jobs :
       \E course \in LoadCourses(analyzer[1]) :
          Record("ATSScorer.analyze", "none", resume_text, job_description,
                 Returned(analyze(analyzer[1], env, course.first_ok, course.embed_ok,
                                  resume_text, job_description),
                          resume_text, job_description))

NextEngine == Analyze

SpecEngine == InitEngine /\ [][NextEngine]_vars

(***************************************************************************)
(* The score alone: step 8 of ATSScorer.analyze on the signals of a        *)
(* resume, and on the signals of the same resume after one revision        *)
(***************************************************************************)
\* the largest number of metrics, and of verbs of one category, of a resume
MaxMetricCount == 5

MaxVerbCount == 3

\* match rates, cosines of the encoder, cosines of the vectorizer (max_df
\* leaves no term that both documents hold, so the cosine of the two rows is
\* 0.0), skill coverages (hundredths of a per cent) and context matches of the
\* resumes
MatchRates == {0, Unit}

SemanticScores == {-(Unit \div 20), 0, 62 * (Unit \div 100), Unit}

TfidfScores == {0}

Coverages == {0, 10000}

ContextMatches == {0, Unit}

\* the sections found in a resume: none, all but skills, all
SectionProfiles ==
    {[sec \in SectionNames |-> FALSE],
     [sec \in SectionNames |-> sec # "skills"],
     [sec \in SectionNames |-> TRUE]}

ResumeLengths == {ShortResumeLimit - 1, ShortResumeLimit}

VerbCounts == [VerbCategories -> {0, MaxVerbCount}]

\* the signals steps 1 to 7 of analyze hand to step 8
Signals(rate, semantic, tfidf, coverage, counts, metric_count, context, sections, length) ==
    [keyword_match_rate |-> rate,
     semantic_score |-> semantic,
     tfidf_score |-> tfidf,
     skills_analysis |-> [total_coverage |-> coverage],
     counts |-> counts,
     experience_analysis |-> ExperienceAnalysis(counts, metric_count),
     context_analysis |-> [average_context_match |-> context],
     section_analysis |-> sections,
     resume_length |-> length]

InitScore ==
    /\ EngineIdle
    /\ KeywordsIdle
    /\ SuggestIdle
    /\ RaceIdle
    /\ \E rate \in MatchRates, semantic \in SemanticScores, tfidf \in TfidfScores,
          coverage \in Coverages, counts \in VerbCounts,
          metric_count \in {0, 2, 4}, context \in ContextMatches,
          sections \in SectionProfiles, length \in ResumeLengths :
          sig = Signals(rate, semantic, tfidf, coverage, counts, metric_count,
                        context, sections, length)
    /\ out = <<>>
    /\ rev = "none"
    /\ prev_out = <<>>

\* step 8 on the signals
Aggregate ==
    /\ out = <<>>
    /\ out' = <<Score(sig)>>
    /\ UNCHANGED <<sig, rev, prev_out, engine_vars, keyword_vars, suggest_vars,
                   race_vars>>

\* the resume gains one quantifiable metric and is analyzed again
AddMetric ==
    /\ out # <<>>
    /\ sig.experience_analysis.metric_count < MaxMetricCount
    /\ sig' = [sig EXCEPT !.experience_analysis =
                  ExperienceAnalysis(sig.counts,
                                     sig.experience_analysis.metric_count + 1)]
    /\ out' = <<Score(sig')>>
    /\ prev_out' = out
    /\ rev' = "metric"
    /\ UNCHANGED <<engine_vars, keyword_vars, suggest_vars, race_vars>>

\* the resume grows to ShortResumeLimit characters and is analyzed again
Lengthen ==
    /\ out # <<>>
    /\ sig.resume_length < ShortResumeLimit
    /\ sig' = [sig EXCEPT !.resume_length = ShortResumeLimit]
    /\ out' = <<Score(sig')>>
    /\ prev_out' = out
    /\ rev' = "length"
    /\ UNCHANGED <<engine_vars, keyword_vars, suggest_vars, race_vars>>

NextScore == Aggregate \/ AddMetric \/ Lengthen

SpecScore == InitScore /\ [][NextScore]_vars

(***************************************************************************)
(* Keyword matching alone: find_keyword_matches on two keyword lists       *)
(***************************************************************************)
\* the longest keyword list
MaxKeywords == 2

KeywordVocabulary == {"java", "javascript", "sql", "python"}

KeywordLists == UNION {[1..n -> KeywordVocabulary] : n \in 0..MaxKeywords}

InitKeywords ==
    /\ EngineIdle
    /\ ScoreIdle
    /\ SuggestIdle
    /\ RaceIdle
    /\ ExtractIdle
    /\ MethodsIdle
    /\ kw_in \in [resume_keywords : KeywordLists, job_keywords : KeywordLists]
    /\ kw_out = <<>>

\* find_keyword_matches, and the rate the result reports
Match ==
    /\ kw_out = <<>>
    /\ LET matches == find_keyword_matches(kw_in.resume_keywords, kw_in.job_keywords)
       IN kw_out' = <<[matched |-> matches.matched, missing |-> matches.missing,
                       hits |-> matches.hits, match_rate |-> matches.match_rate,
                       keyword_match_rate |-> KeywordMatchRate(matches)]>>
    /\ UNCHANGED <<kw_in, ex_in, ex_out, method_vars, engine_vars, score_vars,
                   suggest_vars, race_vars>>

NextKeywords == Match

SpecKeywords == InitKeywords /\ [][NextKeywords]_vars

(***************************************************************************)
(* Keyword extraction alone: extract_keywords on a text, with the tagger   *)
(* missing, raising, or tagging                                            *)
(***************************************************************************)
\* the largest top_n
MaxTopN == 3

ExtractTexts ==
    {"", "Go to AI", "The cat and the dog and the CAT sat with the cat",
     "with with with Python and and SQL", "Zebra apple zebra Apple mango",
     JobScenario}

InitExtract ==
    /\ EngineIdle
    /\ ScoreIdle
    /\ MatchIdle
    /\ SuggestIdle
    /\ RaceIdle
    /\ MethodsIdle
    /\ ex_in \in {<<call>> : call \in [text : ExtractTexts, top_n : 1..MaxTopN,
                                       nlp : {"None", "Loaded"},
                                       tagger : TaggerProfiles \cup {"raises"}]}
    /\ ex_out = <<>>

\* extract_keywords(text, top_n) once _ensure_nlp_loaded has returned
Extract ==
    /\ ex_out = <<>>
    /\ LET call == ex_in[1]
           strategy == KeywordStrategy([nlp |-> call.nlp], call.tagger)
       IN ex_out' = <<[strategy |-> strategy,
                       keywords |-> extract_keywords(strategy, call.text,
                                                     call.top_n)]>>
    /\ UNCHANGED <<ex_in, kw_in, kw_out, method_vars, engine_vars, score_vars,
                   suggest_vars, race_vars>>

NextExtract == Extract

SpecExtract == InitExtract /\ [][NextExtract]_vars

(***************************************************************************)
(* Suggestions alone: generate_suggestions on the analyses of a resume     *)
(***************************************************************************)
\* the longest list of missing keywords
MaxMissing == 5

SuggestScores == {45, 55, 65, 75, 85, 95}

SuggestExperience ==
    {<<>>} \cup
    {<<ExperienceAnalysis(counts, metric_count)>> :
        counts \in {c \in VerbCounts :
                       \A category \in VerbCategories \ {"leadership"} :
                           c[category] = c["creation"]},
        metric_count \in {0, 3}}

SuggestSkills ==
    {<<>>,
     <<[total_coverage |-> 0, missing_skills |-> {}]>>,
     <<[total_coverage |-> 0, missing_skills |-> {"sql"}]>>,
     <<[total_coverage |-> 10000, missing_skills |-> {}]>>}

SuggestContext ==
    {<<>>,
     <<[average_context_match |-> 0, well_contextualized_keywords |-> 0]>>,
     <<[average_context_match |-> 4 * (Unit \div 10),
        well_contextualized_keywords |-> 0]>>,
     <<[average_context_match |-> Unit, well_contextualized_keywords |-> 5]>>}

SuggestMissing ==
    {<<>>, <<"sql">>, <<"leadership">>,
     SubSeq(<<"django", "leader", "cloud", "deployment", "knowledge", "senior">>,
            1, MaxMissing)}

SuggestRates == {0, 3 * (Unit \div 10), 4 * (Unit \div 10), Unit \div 2}

InitSuggest ==
    /\ EngineIdle
    /\ ScoreIdle
    /\ KeywordsIdle
    /\ RaceIdle
    /\ sg_in \in {<<call>> : call \in
                     [missing_keywords : SuggestMissing,
                      section_analysis : SectionProfiles,
                      match_rate : SuggestRates,
                      ats_score : SuggestScores,
                      experience_analysis : SuggestExperience,
                      skills_analysis : SuggestSkills,
                      context_analysis : SuggestContext]}
    /\ sg_out = <<>>

\* generate_suggestions(...)
Suggest ==
    /\ sg_out = <<>>
    /\ LET call == sg_in[1]
       IN sg_out' = <<generate_suggestions(call.missing_keywords,
                          call.section_analysis, call.match_rate, call.ats_score,
                          call.experience_analysis, call.skills_analysis,
                          call.context_analysis)>>
    /\ UNCHANGED <<sg_in, engine_vars, score_vars, keyword_vars, race_vars>>

NextSuggest == Suggest

SpecSuggest == InitSuggest /\ [][NextSuggest]_vars

(***************************************************************************)
(* Keyword context alone: analyze_keyword_context on two texts and a list  *)
(* of keywords                                                             *)
(***************************************************************************)
\* the longest tail of a keyword list
MaxTail == 2

\* keywords that occur in neither text
Fillers ==
    <<"k01", "k02", "k03", "k04", "k05", "k06", "k07", "k08", "k09", "k10",
      "k11", "k12", "k13", "k14", "k15", "k16", "k17", "k18", "k19", "k20">>

\* words and phrases of the documents: of both (one a part of another word of
\* the job description, one a phrase), of the resume alone (one a phrase), of
\* the job description alone
ContextVocabulary ==
    {"python", "develop", "python developer", "redis", "django rest", "cloud"}

\* a list of Fillers followed by a tail of words and phrases
ContextKeywordLists ==
    {SubSeq(Fillers, 1, n) \o tail :
        n \in {0, ContextKeywordLimit - 2, ContextKeywordLimit - 1, ContextKeywordLimit},
        tail \in UNION {[1..m -> ContextVocabulary] : m \in 0..MaxTail}}

ContextResumes == {ResumeScenario, ResumeGardener, ResumeBrief}

ContextJobs == {JobScenario, JobStopWords, JobBrief}

InitContext ==
    /\ EngineIdle
    /\ ScoreIdle
    /\ MatchIdle
    /\ ExtractIdle
    /\ SkillsIdle
    /\ VerbsIdle
    /\ ExtractorsIdle
    /\ SuggestIdle
    /\ RaceIdle
    /\ cx_in \in {<<call>> : call \in [resume_text : ContextResumes,
                                       job_description : ContextJobs,
                                       keywords : ContextKeywordLists]}
    /\ cx_out = <<>>

\* analyze_keyword_context(resume_text, job_description, keywords)
Context ==
    /\ cx_out = <<>>
    /\ cx_out' = <<analyze_keyword_context(cx_in[1].resume_text,
                                           cx_in[1].job_description,
                                           cx_in[1].keywords)>>
    /\ UNCHANGED <<cx_in, sk_in, sk_out, vb_in, vb_out, xs, xs_last, kw_in, kw_out,
                   ex_in, ex_out, engine_vars, score_vars, suggest_vars, race_vars>>

NextContext == Context

SpecContext == InitContext /\ [][NextContext]_vars

(***************************************************************************)
(* Skill coverage alone: analyze_skills_depth on two lists of skills       *)
(***************************************************************************)
\* the longest lists of skills
MaxResumeSkills == 2

MaxJobSkills == 3

\* skills of one family, one skill that is a part of another, one skill
\* written in two cases
SkillVocabulary == {"python", "Python", "django", "java", "javascript"}

SkillLists(longest) == UNION {[1..n -> SkillVocabulary] : n \in 0..longest}

InitSkills ==
    /\ EngineIdle
    /\ ScoreIdle
    /\ MatchIdle
    /\ ExtractIdle
    /\ ContextIdle
    /\ VerbsIdle
    /\ ExtractorsIdle
    /\ SuggestIdle
    /\ RaceIdle
    /\ sk_in \in {<<call>> : call \in [resume_skills : SkillLists(MaxResumeSkills),
                                       job_skills : SkillLists(MaxJobSkills)]}
    /\ sk_out = <<>>

\* analyze_skills_depth(resume_skills, job_skills)
SkillsDepth ==
    /\ sk_out = <<>>
    /\ sk_out' = <<analyze_skills_depth(sk_in[1].resume_skills, sk_in[1].job_skills)>>
    /\ UNCHANGED <<sk_in, cx_in, cx_out, vb_in, vb_out, xs, xs_last, kw_in, kw_out,
                   ex_in, ex_out, engine_vars, score_vars, suggest_vars, race_vars>>

NextSkills == SkillsDepth

SpecSkills == InitSkills /\ [][NextSkills]_vars

(***************************************************************************)
(* Experience depth alone: analyze_experience_depth on a short resume      *)
(***************************************************************************)
\* the most words of a resume
MaxResumeWords == 3

\* verbs of one category, a verb of two categories, a verb with a capital, a
\* word that ends with a verb, a word that is no verb
VerbVocabulary == {"Led", "coordinated", "built", "achieved", "misled", "team"}

VerbResumes ==
    {Join(words) : words \in UNION {[1..n -> VerbVocabulary] : n \in 0..MaxResumeWords}}

InitVerbs ==
    /\ EngineIdle
    /\ ScoreIdle
    /\ MatchIdle
    /\ ExtractIdle
    /\ ContextIdle
    /\ SkillsIdle
    /\ ExtractorsIdle
    /\ SuggestIdle
    /\ RaceIdle
    /\ vb_in \in {<<text>> : text \in VerbResumes}
    /\ vb_out = <<>>

\* analyze_experience_depth(text)
Verbs ==
    /\ vb_out = <<>>
    /\ vb_out' = <<analyze_experience_depth(vb_in[1])>>
    /\ UNCHANGED <<vb_in, cx_in, cx_out, sk_in, sk_out, xs, xs_last, kw_in, kw_out,
                   ex_in, ex_out, engine_vars, score_vars, suggest_vars, race_vars>>

NextVerbs == Verbs

SpecVerbs == InitVerbs /\ [][NextVerbs]_vars

(***************************************************************************)
(* The two extractors of one ATSScorer: calls of extract_keywords and of   *)
(* extract_skills, each with its attempt to load the tagger                *)
(***************************************************************************)
ExtractorTexts ==
    {"", "Go to AI", "with with with Python and and SQL",
     "Zebra apple zebra Apple mango", JobBrief, JobScenario}

InitExtractors ==
    /\ EngineIdle
    /\ ScoreIdle
    /\ MatchIdle
    /\ ExtractIdle
    /\ ContextIdle
    /\ SkillsIdle
    /\ VerbsIdle
    /\ SuggestIdle
    /\ RaceIdle
    /\ xs \in {<<[scorer |-> NewScorer, tagger |-> tagger]>> :
                  tagger \in TaggerProfiles \cup {"raises"}}
    /\ xs_last = <<>>

\* extract_keywords(text, top_n): _ensure_nlp_loaded, then the branch on
\* self.nlp; load_ok tells whether spacy.load returns, if it is called
CallExtractKeywords ==
    \E text \in ExtractorTexts, load_ok \in BOOLEAN :
        LET sc == ensure_nlp_loaded(xs[1].scorer, load_ok)
            strategy == KeywordStrategy(sc, xs[1].tagger)
        IN /\ xs' = <<[xs[1] EXCEPT !.scorer = sc]>>
           /\ xs_last' = <<[method |-> "extract_keywords", text |-> text,
                            strategy |-> strategy,
                            returned |-> extract_keywords(strategy, text, MaxTopN)]>>
           /\ UNCHANGED <<cx_in, cx_out, sk_in, sk_out, vb_in, vb_out, kw_in, kw_out,
                          ex_in, ex_out, engine_vars, score_vars, suggest_vars,
                          race_vars>>

\* extract_skills(text): the patterns, _ensure_nlp_loaded, then the branch on
\* self.nlp and self._use_fallback
CallExtractSkills ==
    \E text \in ExtractorTexts, load_ok \in BOOLEAN :
        LET sc == ensure_nlp_loaded(xs[1].scorer, load_ok)
            strategy == SkillStrategy(sc, xs[1].tagger)
        IN /\ xs' = <<[xs[1] EXCEPT !.scorer = sc]>>
           /\ xs_last' = <<[method |-> "extract_skills", text |-> text,
                            strategy |-> strategy,
                            returned |-> extract_skills(strategy, text)]>>
           /\ UNCHANGED <<cx_in, cx_out, sk_in, sk_out, vb_in, vb_out, kw_in, kw_out,
                          ex_in, ex_out, engine_vars, score_vars, suggest_vars,
                          race_vars>>

NextExtractors == CallExtractKeywords \/ CallExtractSkills

SpecExtractors == InitExtractors /\ [][NextExtractors]_vars

(***************************************************************************)
(* Concurrent first use: requests as threads over routes._analyzer         *)
(***************************************************************************)
\* The handlers of routes.py are coroutines of one event loop, which runs the
\* code after "await resume_file.read()" of one request without interruption.
\* Here the requests are threads that can be interrupted between any two
\* reads and writes of the shared objects: every schedule of the event loop
\* is one of these schedules.
MaxRequests == 2

Requests == 1..MaxRequests

\* the resume and the job description each request sends
RaceDocs ==
    <<[resume |-> ResumeScenario, job |-> JobScenario],
      [resume |-> ResumeLong, job |-> JobStopWords],
      [resume |-> ResumeGardener, job |-> JobScenario],
      [resume |-> ResumeSections, job |-> JobScenario]>>

\* the libraries of the process: what its tagger and encoder do, and whether
\* loading them succeeds
RaceEnvironments ==
    {[tagger |-> "nouns", encoder |-> "similar"],
     [tagger |-> "verbs", encoder |-> "unrelated"],
     [tagger |-> "raises", encoder |-> "raises"]}

\* a version of RacedCosines in which an interrupted fit_transform returns
\* the similarity of the documents of the other request
RacedCosinesOfOthers(cosine, own_fit) ==
    IF own_fit THEN {IF cosine.raised THEN 0 ELSE cosine.similarity}
    ELSE {Unit}

\* what calculate_tfidf_similarity can return when the weights of its
\* vectorizer are those of the caller's fit (own_fit) or were replaced by a
\* fit of other documents in between.  fit_transform counts the terms of the
\* caller's two documents before it reads the shared weights; foreign weights
\* either do not fit the matrix, and the except clause returns 0.0, or
\* rescale its columns, which leaves rows without a common term orthogonal.
RacedCosines(cosine, own_fit) ==
    IF cosine.raised THEN {0}
    ELSE IF own_fit THEN {cosine.similarity}
    ELSE IF cosine.similarity = 0 THEN {0}
    ELSE 0..Unit

NewRequest(i) ==
    [pc |-> "get_check", resume |-> RaceDocs[i].resume, job |-> RaceDocs[i].job,
     an |-> 0, stale |-> FALSE, call |-> 1, back |-> "none", vec |-> 0,
     strategy |-> <<>>, semantic |-> 0, tfidf |-> 0, result |-> <<>>]

InitRace ==
    /\ EngineIdle /\ ScoreIdle /\ KeywordsIdle /\ SuggestIdle
    /\ \E e \in RaceEnvironments, nlp_ok \in BOOLEAN, embed_ok \in BOOLEAN :
           shared = [env |-> e, nlp_ok |-> nlp_ok, embed_ok |-> embed_ok,
                     analyzer |-> 0,
                     scorer |-> [a \in Requests |-> <<>>],
                     vectorizer |-> [a \in Requests |-> 0],
                     fitted_on |-> [v \in Requests |-> <<>>]]
    /\ req = [i \in Requests |-> NewRequest(i)]

\* the scorer of the analyzer request i holds
ScorerOf(i) == shared.scorer[req[i].an][1]

\* request i is at pc and moves to next; the rest of the step is in the
\* action that uses it
At(i, pc) == req[i].pc = pc

\* get_analyzer: "if _analyzer is None"
GetCheck(i) ==
    /\ At(i, "get_check")
    /\ req' = [req EXCEPT ![i].stale = (shared.analyzer = 0),
                          ![i].pc = IF shared.analyzer = 0 THEN "get_make"
                                    ELSE "get_return"]
    /\ UNCHANGED shared

\* get_analyzer: "_analyzer = ResumeAnalyzer()"; the analyzer request i makes
\* is analyzer i
GetMake(i) ==
    /\ At(i, "get_make")
    /\ shared' = [shared EXCEPT !.analyzer = i, !.scorer[i] = <<NewScorer>>,
                                !.vectorizer[i] = 0]
    /\ req' = [req EXCEPT ![i].pc = "get_return"]

\* get_analyzer: "return _analyzer", and the two checks of analyze_resume
GetReturn(i) ==
    /\ At(i, "get_return")
    /\ Analyzable(req[i].resume, req[i].job)
    /\ req' = [req EXCEPT ![i].an = shared.analyzer, ![i].call = 1,
                          ![i].pc = "nlp_check"]
    /\ UNCHANGED shared

\* _ensure_nlp_loaded: "if self.nlp is None"
NlpCheck(i) ==
    /\ At(i, "nlp_check")
    /\ req' = [req EXCEPT ![i].stale = (ScorerOf(i).nlp = "None"),
                          ![i].pc = IF ScorerOf(i).nlp = "None" THEN "nlp_load"
                                    ELSE "extract"]
    /\ UNCHANGED shared

\* _ensure_nlp_loaded: the load and the assignments after it, of a caller
\* that found self.nlp None
NlpLoad(i) ==
    /\ At(i, "nlp_load")
    /\ shared' = [shared EXCEPT !.scorer[req[i].an] =
                      <<ensure_nlp_loaded([ScorerOf(i) EXCEPT !.nlp = "None"],
                                          shared.nlp_ok)>>]
    /\ req' = [req EXCEPT ![i].pc = "extract"]

\* the rest of extract_keywords (calls 1 and 2 of analyze) and of
\* extract_skills (calls 3 and 4), which read self.nlp and self._use_fallback
ExtractStep(i) ==
    /\ At(i, "extract")
    /\ LET call == req[i].call
           strategy ==
               IF call <= 2 THEN KeywordStrategy(ScorerOf(i), shared.env.tagger)
               ELSE SkillStrategy(ScorerOf(i), shared.env.tagger)
           taken == Append(req[i].strategy, strategy)
       IN req' = [req EXCEPT
              ![i].strategy = taken,
              ![i].call = call + 1,
              ![i].pc = IF call = 2 THEN "embed_check"
                        ELSE IF call = 4 THEN "done"
                        ELSE "nlp_check",
              ![i].result =
                  IF call = 4
                  THEN <<Results(taken[1], taken[2], taken[3], taken[4],
                                 req[i].semantic, req[i].tfidf,
                                 req[i].resume, req[i].job).result>>
                  ELSE <<>>]
    /\ UNCHANGED shared

\* _ensure_embeddings_loaded: "if self.sentence_model is None"
EmbedCheck(i) ==
    /\ At(i, "embed_check")
    /\ req' = [req EXCEPT ![i].stale = (ScorerOf(i).sentence_model = "None"),
                          ![i].pc = IF ScorerOf(i).sentence_model = "None"
                                    THEN "embed_load" ELSE "semantic"]
    /\ UNCHANGED shared

\* _ensure_embeddings_loaded: the load and the assignment after it
EmbedLoad(i) ==
    /\ At(i, "embed_load")
    /\ shared' = [shared EXCEPT !.scorer[req[i].an] =
                      <<ensure_embeddings_loaded(
                            [ScorerOf(i) EXCEPT !.sentence_model = "None"],
                            shared.embed_ok)>>]
    /\ req' = [req EXCEPT ![i].pc = "semantic"]

\* the rest of calculate_semantic_similarity: the cosine of the embeddings,
\* or the call of calculate_tfidf_similarity in its place
Semantic(i) ==
    /\ At(i, "semantic")
    /\ IF ScorerOf(i).sentence_model = "Model" /\ shared.env.encoder # "raises"
       THEN req' = [req EXCEPT
                ![i].semantic = SemanticCosine(shared.env.encoder,
                                               NormalizedOf[req[i].resume],
                                               NormalizedOf[req[i].job]),
                ![i].back = "tfidf", ![i].pc = "tfidf_check"]
       ELSE req' = [req EXCEPT ![i].back = "semantic", ![i].pc = "tfidf_check"]
    /\ UNCHANGED shared

\* _ensure_tfidf_loaded: "if self.tfidf_vectorizer is None"
TfidfCheck(i) ==
    /\ At(i, "tfidf_check")
    /\ req' = [req EXCEPT ![i].stale = (shared.vectorizer[req[i].an] = 0),
                          ![i].pc = IF shared.vectorizer[req[i].an] = 0
                                    THEN "tfidf_make" ELSE "fit"]
    /\ UNCHANGED shared

\* _ensure_tfidf_loaded: "self.tfidf_vectorizer = TfidfVectorizer(...)"; the
\* vectorizer request i makes is vectorizer i
TfidfMake(i) ==
    /\ At(i, "tfidf_make")
    /\ shared' = [shared EXCEPT
                      !.scorer[req[i].an] =
                          <<ensure_tfidf_loaded(
                                [ScorerOf(i) EXCEPT !.tfidf_vectorizer = "None"])>>,
                      !.vectorizer[req[i].an] = i,
                      !.fitted_on[i] = <<>>]
    /\ req' = [req EXCEPT ![i].pc = "fit"]

\* "self.tfidf_vectorizer.fit_transform(...)": the vectorizer is read, and
\* its vocabulary and weights are fitted on the documents of the request
Fit(i) ==
    /\ At(i, "fit")
    /\ LET vec == shared.vectorizer[req[i].an]
           docs == <<NormalizedOf[req[i].resume], NormalizedOf[req[i].job]>>
       IN /\ shared' = [shared EXCEPT !.fitted_on[vec] =
                            IF TfidfOf[req[i].resume][req[i].job].raised THEN @
                            ELSE docs]
          /\ req' = [req EXCEPT ![i].vec = vec, ![i].pc = "transform"]

\* the rest of fit_transform and of calculate_tfidf_similarity: the matrix is
\* weighted with the weights the vectorizer holds now
Transform(i) ==
    /\ At(i, "transform")
    /\ LET docs == <<NormalizedOf[req[i].resume], NormalizedOf[req[i].job]>>
           cosine == TfidfOf[req[i].resume][req[i].job]
       IN \E value \in RacedCosines(cosine, shared.fitted_on[req[i].vec] = docs) :
              req' = [req EXCEPT
                  ![i].semantic = IF req[i].back = "semantic" THEN value ELSE @,
                  ![i].tfidf = IF req[i].back = "tfidf" THEN value ELSE @,
                  ![i].back = "tfidf",
                  ![i].pc = IF req[i].back = "semantic" THEN "tfidf_check"
                            ELSE "nlp_check"]
    /\ UNCHANGED shared

NextRace ==
    \E i \in Requests :
        /\ \/ GetCheck(i) \/ GetMake(i) \/ GetReturn(i)
           \/ NlpCheck(i) \/ NlpLoad(i) \/ ExtractStep(i)
           \/ EmbedCheck(i) \/ EmbedLoad(i) \/ Semantic(i)
           \/ TfidfCheck(i) \/ TfidfMake(i) \/ Fit(i) \/ Transform(i)
        /\ UNCHANGED <<engine_vars, score_vars, keyword_vars, suggest_vars>>

SpecRace == InitRace /\ [][NextRace]_vars

(***************************************************************************)
(* Properties of the score                                                 *)
(***************************************************************************)
\* C1: the ats_score step 8 returns is an integer from 0 to 100, whatever
\* the signals, bonuses and penalties add up to before the clamp
AtsScoreInRange ==
    /\ \A k \in 1..Len(out) : out[k].ats_score \in 0..100
    /\ \A k \in 1..Len(prev_out) : prev_out[k].ats_score \in 0..100

\* a score whose total before the clamp is above 100
AtsScoreClampedFromAbove == out # <<>> /\ out[1].raw > 100 * Unit

\* C4: a resume that gains a metric, all else equal, does not score lower
MetricMonotone ==
    rev = "metric" => out[1].ats_score >= prev_out[1].ats_score

\* a metric that raised the score
MetricRaisedScore == rev = "metric" /\ out[1].ats_score > prev_out[1].ats_score

\* C5 as stated: the resume under ShortResumeLimit characters has ten points
\* less before the clamp and a lower ats_score than the same resume at
\* ShortResumeLimit characters
ShortResumeScoresLower ==
    rev = "length" =>
        /\ prev_out[1].raw = out[1].raw - 10 * Unit
        /\ prev_out[1].ats_score < out[1].ats_score

\* C5: the resume under ShortResumeLimit characters has ten points less
\* before the clamp, never a higher ats_score than the same resume at
\* ShortResumeLimit characters, and a lower one when the longer resume scores
\* at least 1
ShortResumeScoresNoHigher ==
    rev = "length" =>
        /\ prev_out[1].raw = out[1].raw - 10 * Unit
        /\ prev_out[1].ats_score <= out[1].ats_score
        /\ out[1].ats_score >= 1 => prev_out[1].ats_score < out[1].ats_score

\* a short resume and its longer version that scores at least 1
LongerResumeScores == rev = "length" /\ out[1].ats_score >= 1

\* the weighted sum of C12, in Unit-ths of a point, written from the six
\* signals
ReferenceBase(a) ==
      25 * a.keyword_match_rate
    + 25 * (IF a.semantic_score > 0 THEN a.semantic_score ELSE a.tfidf_score)
    + 20 * (a.skills_analysis.total_coverage * (Unit \div 10000))
    + 15 * (a.experience_analysis.experience_strength_score * (Unit \div 100))
    + 10 * a.context_analysis.average_context_match
    +  5 * Ratio(Cardinality({sec \in SectionNames : a.section_analysis[sec]}), 5)

ReferenceScore(a) ==
    LET total ==
            ReferenceBase(a)
            + Unit * ((IF a.experience_analysis.metric_count >= 5 THEN 3
                       ELSE IF a.experience_analysis.metric_count >= 3 THEN 2
                       ELSE 0)
                      + (IF a.experience_analysis.action_verb_count >= 15 THEN 2 ELSE 0)
                      - (IF a.resume_length < 500 THEN 10 ELSE 0)
                      - (IF a.section_analysis["experience"] THEN 0 ELSE 5)
                      - (IF a.section_analysis["skills"] THEN 0 ELSE 5))
    IN IF total < 0 THEN 0
       ELSE IF total > 100 * Unit THEN 100
       ELSE total \div Unit

\* C12: the ats_score is the weighted sum of the six signals with the weights
\* 25, 25, 20, 15, 10 and 5 per cent (100 in all), plus the bonuses, minus the
\* penalties, clamped to 0..100 and truncated
ScoreIsReferenceAggregation ==
    /\ SumOver(Components, LAMBDA c : weights[c]) = 100
    /\ out # <<>> => out[1].ats_score = ReferenceScore(sig)

\* a score with a bonus and a penalty and signals that are neither all 0 nor
\* all 1
MixedScoreAggregated ==
    /\ out # <<>>
    /\ sig.experience_analysis.metric_count >= 3
    /\ sig.resume_length < ShortResumeLimit
    /\ out[1].ats_score \in 1..99
    /\ sig.keyword_match_rate = Unit
    /\ sig.context_analysis.average_context_match = 0

\* C13: the content_similarity of the score is the semantic score when that is
\* above zero and the TF-IDF score otherwise
ContentSimilarityPrefersSemantic ==
    out # <<>> =>
        out[1].normalized_scores.content_similarity =
            IF sig.semantic_score > 0 THEN sig.semantic_score ELSE sig.tfidf_score

\* a score of a negative semantic score
NegativeSemanticScored == out # <<>> /\ sig.semantic_score < 0

\* C20: experience_strength_score is min(100, 5 * the verbs of the five
\* categories + 10 * the metrics + 20 with a leadership verb + 15 with an
\* achievement verb), and is within 0..100
ExperienceStrengthFormula ==
    sig # NoSignals =>
        LET total_verb_count ==
                sig.counts["leadership"] + sig.counts["achievement"]
                + sig.counts["improvement"] + sig.counts["creation"]
                + sig.counts["collaboration"]
            sum == 5 * total_verb_count
                   + 10 * sig.experience_analysis.metric_count
                   + (IF sig.counts["leadership"] > 0 THEN 20 ELSE 0)
                   + (IF sig.counts["achievement"] > 0 THEN 15 ELSE 0)
        IN /\ sig.experience_analysis.experience_strength_score =
                  IF sum > 100 THEN 100 ELSE sum
           /\ sig.experience_analysis.experience_strength_score \in 0..100

\* a resume whose verbs and metrics add up to more than 100
ExperienceStrengthCapped ==
    /\ sig # NoSignals
    /\ sig.experience_analysis.experience_strength_score = 100
    /\ 5 * sig.experience_analysis.action_verb_count
         + 10 * sig.experience_analysis.metric_count > 100

(***************************************************************************)
(* Properties of keyword matching                                          *)
(***************************************************************************)
\* C2 as stated: keyword_match_rate is from 0 to 100 per cent, and is 100
\* whenever the keywords of the resume include every keyword of the job, a job
\* without keywords included
MatchRateFullForSuperset ==
    kw_out # <<>> =>
        /\ kw_out[1].keyword_match_rate \in 0..10000
        /\ Range(kw_in.job_keywords) \subseteq Range(kw_in.resume_keywords)
               => kw_out[1].keyword_match_rate = 10000

\* C2: keyword_match_rate is from 0 to 100 per cent, and is 100 whenever the
\* job has a keyword and the keywords of the resume include every keyword of
\* the job
MatchRateFullForNonEmptySuperset ==
    kw_out # <<>> =>
        /\ kw_out[1].keyword_match_rate \in 0..10000
        /\ (/\ kw_in.job_keywords # <<>>
            /\ Range(kw_in.job_keywords) \subseteq Range(kw_in.resume_keywords))
               => kw_out[1].keyword_match_rate = 10000

\* a resume with more keywords than the job, all of the job's among them
StrictSupersetMatched ==
    /\ kw_out # <<>>
    /\ kw_in.job_keywords # <<>>
    /\ Range(kw_in.job_keywords) \subseteq Range(kw_in.resume_keywords)
    /\ Range(kw_in.job_keywords) # Range(kw_in.resume_keywords)

\* C7: a job without keywords has match rate 0.0 and keyword_match_rate 0.0,
\* whatever the keywords of the resume
NoJobKeywordsRateZero ==
    (kw_out # <<>> /\ kw_in.job_keywords = <<>>) =>
        /\ kw_out[1].match_rate = 0
        /\ kw_out[1].keyword_match_rate = 0
        /\ kw_out[1].matched = {}
        /\ kw_out[1].missing = {}

\* a resume with keywords matched against a job without
NoJobKeywordsMatched ==
    kw_out # <<>> /\ kw_in.job_keywords = <<>> /\ kw_in.resume_keywords # <<>>

(***************************************************************************)
(* Properties of the engine and of the service                             *)
(***************************************************************************)
\* C3: a call of analyze with the resume and job description of the call
\* before it, on the same scorer, returns the same ats_score and the same
\* matched and missing keywords
AnalyzeIdempotent == repeat # "differs"

\* C6: analyze_resume on an empty or blank resume raises ValueError, returns
\* no result, does not call the scorer and leaves the analyzer and its scorer
\* as they were
BlankResumeRejected ==
    [][(last'.op = "analyze_resume" /\ StrippedLength[last'.resume] = 0) =>
          /\ last'.outcome = "ValueError"
          /\ ~last'.invoked
          /\ last'.scored = <<>>
          /\ analyzer' = analyzer]_vars

\* a blank resume handed to an analyzer whose scorer has loaded its tagger
BlankResumeAfterLoad ==
    /\ last.op = "analyze_resume"
    /\ last.resume = ResumeBlank
    /\ last.outcome = "ValueError"
    /\ analyzer[1].nlp = "Loaded"

\* the resume a request hands to analyze_resume
RequestResume ==
    IF last.upload = "parsed" THEN ParsedOf[last.resume] ELSE last.resume

\* C8: a request to /analyze or /analyze-json whose resume strips to under
\* MinResumeLength characters or whose job description strips to under
\* MinJobLength characters is answered as an input error (400, or 422 from the
\* validation of the form), never 500
ShortInputIsInputError ==
    (/\ last.op \in {"analyze", "analyze-json"}
     /\ \/ StrippedLength[RequestResume] < MinResumeLength
        \/ StrippedLength[last.job_description] < MinJobLength)
        => last.status \in {400, 422}

\* the sections that hold one of their variants, by the text of the resume
VariantOccurs ==
    AsTable([d \in ResumeTexts |->
        LET lowered == Lower(d)
        IN AsTable([section_name \in SectionNames |->
               \E variant \in SECTION_KEYWORDS[section_name] :
                   \E at \in 1..Len(d) : StartsAt(lowered, at, variant)])])

\* C9: a section is flagged exactly when one of its variants occurs in the
\* lowercased resume; the resume with "Professional Experience" has
\* experience, the resume without a skills variant has no skills
SectionsFlaggedIffVariantOccurs ==
    \A k \in 1..Len(last.scored) :
        LET call == last.scored[k]
        IN /\ \A section_name \in SectionNames :
                  call.result.section_analysis[section_name]
                      <=> VariantOccurs[call.resume_text][section_name]
           /\ call.resume_text = ResumeSections
                  => call.result.section_analysis["experience"]
           /\ call.resume_text = ResumeGardener
                  => ~call.result.section_analysis["skills"]

\* an analysis of the resume with "Professional Experience" and no other
\* variant of experience in lower case
ProfessionalExperienceFlagged ==
    /\ last.scored # <<>>
    /\ last.scored[1].resume_text = ResumeSections
    /\ last.scored[1].result.section_analysis["experience"]
    /\ ~last.scored[1].result.section_analysis["projects"]

\* C10: analyze_resume on the Python/Django resume and job description returns
\* ats_score > 0 and keyword_match_rate >= 0 with "python" and "django" among
\* the matched keywords, whichever strategies ran
ScenarioMatchesPythonDjango ==
    \A k \in 1..Len(last.scored) :
        LET call == last.scored[k]
        IN (call.resume_text = ResumeScenario /\ call.job_description = JobScenario)
               => /\ call.result.ats_score > 0
                  /\ call.result.keyword_match_rate >= 0
                  /\ {"python", "django"} \subseteq call.result.matched_keywords

\* the scenario analyzed with the tagger for the keywords and the encoder for
\* the similarity
ScenarioAnalyzedWithTagger ==
    /\ last.scored # <<>>
    /\ last.scored[1].resume_text = ResumeScenario
    /\ last.scored[1].job_description = JobScenario
    /\ last.scored[1].ran.job_keywords \in TaggerProfiles
    /\ last.scored[1].ran.semantic_score > 0

\* C11: each of the six normalized scores of an analysis is from 0.0 to 1.0
NormalizedScoresInUnitInterval ==
    \A k \in 1..Len(last.scored) :
        \A component \in Components :
            /\ last.scored[k].ran.normalized_scores[component] >= 0
            /\ last.scored[k].ran.normalized_scores[component] <= Unit

\* an analysis whose encoder gave a negative cosine
NegativeCosineAnalyzed ==
    last.scored # <<>> /\ last.scored[1].ran.semantic_score < 0

\* C15: the initialization of each resource of a scorer runs at most once
InitializedAtMostOnce ==
    \A k \in 1..Len(analyzer) :
        \A resource \in DOMAIN analyzer[k].runs : analyzer[k].runs[resource] <= 1

\* C16: once the tagger, the encoder and the vectorizer of a scorer are
\* initialized, a call of analyze leaves their state as it was
ResourcesReadOnly ==
    [][(/\ analyzer # <<>>
        /\ analyzer[1].nlp # "None"
        /\ analyzer[1].sentence_model # "None"
        /\ analyzer[1].tfidf_vectorizer # "None") =>
           /\ analyzer'[1].nlp = analyzer[1].nlp
           /\ analyzer'[1].sentence_model = analyzer[1].sentence_model
           /\ analyzer'[1].tfidf_vectorizer = analyzer[1].tfidf_vectorizer
           /\ analyzer'[1].fitted_on = analyzer[1].fitted_on]_vars

\* C18: every call of ATSScorer.analyze returns a result, whatever the texts
\* and whatever the tagger, the encoder and the vectorizer do
AnalyzeAlwaysReturns ==
    last.op = "ATSScorer.analyze" =>
        /\ last.outcome = "result"
        /\ last.scored # <<>>
        /\ last.scored[1].result.ats_score \in 0..100

\* an analysis of an empty resume where the tagger and the encoder raise and
\* the vectorizer finds no term
EmptyResumeAnalyzed ==
    /\ last.op = "ATSScorer.analyze"
    /\ last.resume = ""
    /\ last.job_description = JobTiny
    /\ last.outcome = "result"
    /\ env.tagger = "raises"
    /\ env.encoder = "raises"
    /\ analyzer[1].nlp = "Loaded"
    /\ analyzer[1].sentence_model = "Model"

\* C23: no call of the two similarity methods lets an error out:
\* calculate_tfidf_similarity returns 0.0 when the vectorizer raises;
\* calculate_semantic_similarity returns the value of
\* calculate_tfidf_similarity when the encoder did not load or raises on the
\* texts; and a load of the encoder that failed is marked, so that the load
\* is tried once only
SimilarityIsBestEffort ==
    last.op = "ATSScorer.analyze" =>
        /\ last.outcome = "result"
        /\ TfidfOf[last.resume][last.job_description].raised =>
               last.scored[1].ran.tfidf_score = 0
        /\ (analyzer[1].sentence_model = "False" \/ env.encoder = "raises") =>
               last.scored[1].ran.semantic_score = last.scored[1].ran.tfidf_score
        /\ analyzer[1].sentence_model \in {"Model", "False"}
        /\ analyzer[1].runs.sentence_model = 1

\* a second analysis on a scorer whose encoder did not load, of two texts
\* that leave the vectorizer no term
UnavailableEncoderAnalyzedAgain ==
    /\ last.op = "ATSScorer.analyze"
    /\ repeat = "same"
    /\ analyzer[1].sentence_model = "False"
    /\ TfidfOf[last.resume][last.job_description].raised
    /\ last.scored[1].ran.semantic_score = 0

\* C30: the semantic_similarity of a result is a number only when the encoder
\* gave the score: it is null whenever the encoder did not load or raised on
\* the texts, and a number is the rounded cosine of the embeddings
SemanticSimilarityFromEncoder ==
    last.op = "ATSScorer.analyze" /\ last.outcome = "result" =>
        LET result == last.scored[1].result
            encoded == analyzer[1].sentence_model = "Model" /\ env.encoder # "raises"
        IN /\ ~encoded => result.semantic_similarity = <<>>
           /\ result.semantic_similarity # <<>> =>
                  result.semantic_similarity =
                      <<RoundHundredths(SemanticCosine(env.encoder,
                            NormalizedOf[last.resume],
                            NormalizedOf[last.job_description]))>>

\* an analysis without the encoder of two texts that share keywords
SharedWordsWithoutEncoder ==
    /\ last.op = "ATSScorer.analyze"
    /\ last.outcome = "result"
    /\ analyzer[1].sentence_model = "False" \/ env.encoder = "raises"
    /\ last.scored[1].result.keyword_match_rate > 0
    /\ TfidfTerms(NormalizedOf[last.resume])
          \cap TfidfTerms(NormalizedOf[last.job_description]) # {}
    /\ last.scored[1].result.semantic_similarity = <<>>

(***************************************************************************)
(* Properties of keyword extraction                                        *)
(***************************************************************************)
\* C19: the keywords extract_keywords returns without the tagger, whether the
\* tagger is missing or raised on the text, are lowercase word tokens of three
\* or more characters, none of them a stop word, no more than top_n, distinct,
\* in order of decreasing frequency and, at equal frequency, of first
\* occurrence
FallbackKeywordsContract ==
    \A k \in 1..Len(ex_out) :
        ex_out[k].strategy \in {"fallback", "untagged"} =>
            LET keywords == ex_out[k].keywords
                tokens == WordTokens(Lower(ex_in[1].text))
                count(w) == Cardinality({i \in 1..Len(tokens) : tokens[i] = w})
                firstAt(w) == CHOOSE i \in 1..Len(tokens) :
                                  tokens[i] = w /\ \A j \in 1..(i - 1) : tokens[j] # w
            IN /\ Len(keywords) <= ex_in[1].top_n
               /\ \A i \in 1..Len(keywords) :
                     /\ Len(keywords[i]) >= 3
                     /\ keywords[i] = Lower(keywords[i])
                     /\ \E j \in 1..Len(tokens) : tokens[j] = keywords[i]
                     /\ keywords[i] \notin stop_words
               /\ \A i, j \in 1..Len(keywords) :
                     i < j =>
                        /\ keywords[i] # keywords[j]
                        /\ \/ count(keywords[i]) > count(keywords[j])
                           \/ /\ count(keywords[i]) = count(keywords[j])
                              /\ firstAt(keywords[i]) < firstAt(keywords[j])

(***************************************************************************)
(* Properties of the suggestions                                           *)
(***************************************************************************)
\* the one order of C14: the message of the score, the tips on experience,
\* skills and context, the keyword tip, the sections, the match rate, the
\* formatting tips, the final advice
SuggestionPriority ==
    <<"outstanding", "excellent match", "good alignment", "moderate match",
      "below average alignment", "low compatibility",
      "add quantifiable achievements", "use more action verbs",
      "emphasize leadership", "strengthen descriptions",
      "critical skill match", "add key skills",
      "align phrasing", "use job terminology",
      "high-priority keywords", "important keywords",
      "add missing sections", "create skills section", "add achievements section",
      "very low keyword overlap", "boost keyword match rate",
      "standard section headers", "avoid tables", "standard fonts",
      "mirror the language", "pro tip">>

\* whether the gate of a suggestion is open for the arguments of the call,
\* each by its own condition
GateOpen(call, suggestion) ==
    LET e == call.experience_analysis
        k == call.skills_analysis
        c == call.context_analysis
        long == {i \in 1..Len(call.missing_keywords) :
                    i <= 10 /\ Len(call.missing_keywords[i]) > 3}
    IN CASE suggestion = "outstanding" -> call.ats_score >= 90
         [] suggestion = "excellent match" -> call.ats_score \in 80..89
         [] suggestion = "good alignment" -> call.ats_score \in 70..79
         [] suggestion = "moderate match" -> call.ats_score \in 60..69
         [] suggestion = "below average alignment" -> call.ats_score \in 50..59
         [] suggestion = "low compatibility" -> call.ats_score < 50
         [] suggestion = "add quantifiable achievements" ->
                e # <<>> /\ e[1].metric_count < 3
         [] suggestion = "use more action verbs" ->
                e # <<>> /\ e[1].action_verb_count < 10
         [] suggestion = "emphasize leadership" ->
                /\ e # <<>>
                /\ e[1].leadership_indicators = 0
                /\ \E i \in 1..Len(call.missing_keywords) :
                      IsSubstring("lead", call.missing_keywords[i])
         [] suggestion = "strengthen descriptions" ->
                e # <<>> /\ e[1].experience_strength_score < 50
         [] suggestion = "critical skill match" ->
                k # <<>> /\ k[1].total_coverage < 5000
         [] suggestion = "add key skills" -> k # <<>> /\ k[1].missing_skills # {}
         [] suggestion = "align phrasing" ->
                c # <<>> /\ 10 * c[1].average_context_match < 4 * Unit
         [] suggestion = "use job terminology" ->
                c # <<>> /\ c[1].well_contextualized_keywords < 5
         [] suggestion = "high-priority keywords" -> Cardinality(long) >= 5
         [] suggestion = "important keywords" -> Cardinality(long) \in 1..4
         [] suggestion = "add missing sections" ->
                \E sec \in SectionNames : ~call.section_analysis[sec]
         [] suggestion = "create skills section" -> ~call.section_analysis["skills"]
         [] suggestion = "add achievements section" ->
                ~call.section_analysis["achievements"]
         [] suggestion = "very low keyword overlap" -> 10 * call.match_rate < 3 * Unit
         [] suggestion = "boost keyword match rate" ->
                10 * call.match_rate >= 3 * Unit /\ 10 * call.match_rate < 5 * Unit
         [] suggestion = "pro tip" -> call.ats_score < 70
         [] OTHER -> TRUE

\* C14: the suggestions are the suggestions of SuggestionPriority whose gate is
\* open, each once, in the order of SuggestionPriority
SuggestionsInPriorityOrder ==
    \A k \in 1..Len(sg_out) :
        LET suggestions == sg_out[k]
            at(i) == CHOOSE p \in 1..Len(SuggestionPriority) :
                         SuggestionPriority[p] = suggestions[i]
        IN /\ \A i \in 1..Len(suggestions) :
                 \E p \in 1..Len(SuggestionPriority) :
                     SuggestionPriority[p] = suggestions[i]
           /\ \A i, j \in 1..Len(suggestions) : i < j => at(i) < at(j)
           /\ \A p \in 1..Len(SuggestionPriority) :
                 GateOpen(sg_in[1], SuggestionPriority[p])
                     <=> \E i \in 1..Len(suggestions) :
                            suggestions[i] = SuggestionPriority[p]

\* suggestions of every group at once
SuggestionsOfEveryGroup ==
    /\ sg_out # <<>>
    /\ {"low compatibility", "emphasize leadership", "add key skills",
        "align phrasing", "high-priority keywords", "add missing sections",
        "boost keyword match rate", "avoid tables", "pro tip"}
           \subseteq Range(sg_out[1])

(***************************************************************************)
(* Properties of concurrent first use                                      *)
(***************************************************************************)
\* the dictionary request i gets when it is the only request of a process
\* with the same libraries
Alone(i) ==
    analyze(NewScorer, shared.env,
            IF shared.nlp_ok THEN 1 ELSE Attempts + 1, shared.embed_ok,
            req[i].resume, req[i].job).result

\* C17: under every interleaving of the requests, each request that has got
\* an analyzer holds one that was initialized (the shared one or one of its
\* own making), and each request that has finished has the dictionary it
\* would have got alone
ConcurrentFirstUseSafe ==
    \A i \in Requests :
        /\ req[i].an # 0 => shared.scorer[req[i].an] # <<>>
        /\ req[i].pc = "done" => req[i].result = <<Alone(i)>>

\* all requests have finished, two analyzers were made, and on one of them
\* the tagger was loaded twice and two vectorizers were made
RacedRequestsFinished ==
    /\ \A i \in Requests : req[i].pc = "done"
    /\ \A a \in Requests : shared.scorer[a] # <<>>
    /\ \E a \in Requests :
           /\ shared.scorer[a][1].runs.nlp = 2
           /\ shared.scorer[a][1].runs.tfidf_vectorizer = 2

(***************************************************************************)
(* Properties of the keyword context                                       *)
(***************************************************************************)
\* the keywords analyze_keyword_context is to score
ScoredKeywords ==
    Range(SubSeq(cx_in[1].keywords, 1,
                 Min(Len(cx_in[1].keywords), ContextKeywordLimit)))

\* the keyword occurs in the text
Occurs(keyword, text) == IsSubstring(keyword, Lower(text))

\* C21: every keyword among the first 20, a word or a phrase, that occurs in
\* both documents has windows in both and scores the Jaccard similarity of
\* the word sets of its windows; one that occurs in the resume alone scores
\* 0.5; one that does not occur in the resume scores 0.0
ContextScoreByOccurrence ==
    cx_out # <<>> =>
        \A keyword \in ScoredKeywords :
            LET score == cx_out[1].context_scores[keyword]
                resume_contexts == ContextWords(Split(Lower(cx_in[1].resume_text)), keyword)
                job_contexts == ContextWords(Split(Lower(cx_in[1].job_description)), keyword)
                in_resume == Occurs(keyword, cx_in[1].resume_text)
                in_job == Occurs(keyword, cx_in[1].job_description)
            IN /\ in_resume /\ in_job =>
                   /\ resume_contexts.found /\ job_contexts.found
                   /\ score = calculate_context_overlap(resume_contexts.words,
                                                        job_contexts.words)
               /\ in_resume /\ ~in_job => score = Unit \div 2
               /\ ~in_resume => score = 0

\* C24: only the first 20 keywords are scored, and the keywords after the
\* 20th do not change the result; average_context_match is the mean of the
\* scores (to the nearest millionth), 0.0 when no keyword was scored, and
\* lies in [0, 1]; well_contextualized_keywords counts the scored keywords
\* whose score is above 0.6
ContextAggregates ==
    cx_out # <<>> =>
        LET analysis == cx_out[1]
            scored == DOMAIN analysis.context_scores
            total == SumFn(scored, analysis.context_scores)
            mean == analysis.average_context_match
            n == Cardinality(scored)
        IN /\ scored = ScoredKeywords
           /\ analysis =
                  analyze_keyword_context(
                      cx_in[1].resume_text, cx_in[1].job_description,
                      SubSeq(cx_in[1].keywords, 1, Min(Len(cx_in[1].keywords), 20)))
           /\ n = 0 => mean = 0
           /\ 2 * (mean * n - total) <= n /\ 2 * (total - mean * n) <= n
           /\ mean >= 0 /\ mean <= Unit
           /\ analysis.well_contextualized_keywords =
                  Cardinality({keyword \in scored :
                                  10 * analysis.context_scores[keyword] > 6 * Unit})

\* a list of more than 20 keywords was analyzed: the 21st occurs in both
\* documents and is not among the first 20, and of the first 20 one scores
\* above 0.6 and another scores less
KeywordAfterTheTwentieth ==
    /\ cx_out # <<>>
    /\ Len(cx_in[1].keywords) > 20
    /\ cx_in[1].keywords[21] \notin ScoredKeywords
    /\ Occurs(cx_in[1].keywords[21], cx_in[1].resume_text)
    /\ Occurs(cx_in[1].keywords[21], cx_in[1].job_description)
    /\ cx_out[1].well_contextualized_keywords = 1
    /\ cx_out[1].average_context_match > 0
    /\ cx_out[1].average_context_match < Unit \div 10

(***************************************************************************)
(* Properties of the skill coverage                                        *)
(***************************************************************************)
\* the distinct skills of a list, in lower case
SkillSet(skills) == {Lower(skill) : skill \in Range(skills)}

\* the job skill is a part of a resume skill, or holds one, or is of the
\* family of one
PartlyHeld(job_skill, resume_set) ==
    \E resume_skill \in resume_set :
        \/ IsSubstring(job_skill, resume_skill)
        \/ IsSubstring(resume_skill, job_skill)
        \/ \E family \in skill_families : {job_skill, resume_skill} \subseteq family

\* C22: the exact matches, the partial matches and the missing skills are
\* pairwise disjoint and together are the distinct job skills: exact are the
\* job skills the resume holds, partial those of the others that are a part
\* of a resume skill, hold one or share a family with one; total_coverage is
\* 100 * (|exact| + |partial|) / |job skills| to two decimals, in [0, 100],
\* and 0 when the job has no skills
SkillsPartitionAndCoverage ==
    sk_out # <<>> =>
        LET a == sk_out[1]
            resume_set == SkillSet(sk_in[1].resume_skills)
            job_set == SkillSet(sk_in[1].job_skills)
            exact == a.exact_skill_matches
            partial == a.partial_skill_matches
            missing == a.missing_skills
            covered == Cardinality(exact) + Cardinality(partial)
        IN /\ exact \cap partial = {} /\ exact \cap missing = {}
           /\ partial \cap missing = {}
           /\ exact \cup partial \cup missing = job_set
           /\ exact = job_set \cap resume_set
           /\ \A job_skill \in job_set \ exact :
                  job_skill \in partial <=> PartlyHeld(job_skill, resume_set)
           /\ a.total_coverage >= 0 /\ a.total_coverage <= 10000
           /\ job_set = {} => a.total_coverage = 0
           /\ job_set # {} =>
                  /\ 2 * (a.total_coverage * Cardinality(job_set) - 10000 * covered)
                         <= Cardinality(job_set)
                  /\ 2 * (10000 * covered - a.total_coverage * Cardinality(job_set))
                         <= Cardinality(job_set)

\* three job skills: one the resume holds, one of the family of a resume
\* skill, one the resume lacks
SkillsOfEachKind ==
    /\ sk_out # <<>>
    /\ Cardinality(sk_out[1].exact_skill_matches) = 1
    /\ sk_out[1].partial_skill_matches = {"django"}
    /\ Cardinality(sk_out[1].missing_skills) = 1
    /\ sk_out[1].total_coverage = 6667

(***************************************************************************)
(* Properties of the suggestions of an analysis                            *)
(***************************************************************************)
ScoreTiers ==
    {"outstanding", "excellent match", "good alignment", "moderate match",
     "below average alignment", "low compatibility"}

\* the message of the band of a score
TierOfScore(score) ==
    CASE score >= 90 -> "outstanding"
      [] score \in 80..89 -> "excellent match"
      [] score \in 70..79 -> "good alignment"
      [] score \in 60..69 -> "moderate match"
      [] score \in 50..59 -> "below average alignment"
      [] OTHER -> "low compatibility"

GenericTips ==
    <<"standard section headers", "avoid tables", "standard fonts",
      "mirror the language">>

\* C25: every list of suggestions of an analysis starts with the message of
\* the band of the ats_score the analysis returns, and holds no other message
\* of a band; it holds the four generic tips; its last element is the final
\* advice if ats_score < 70, and the fourth generic tip if not
SuggestionsFramed ==
    (last.op = "ATSScorer.analyze" /\ last.scored # <<>>) =>
        \A suggestions \in SuggestionsOf(last.scored[1]) :
            LET score == last.scored[1].result.ats_score
                n == Len(suggestions)
            IN /\ n >= 5
               /\ suggestions[1] = TierOfScore(score)
               /\ \A k \in 2..n : suggestions[k] \notin ScoreTiers
               /\ \A g \in 1..4 : \E k \in 2..n : suggestions[k] = GenericTips[g]
               /\ score < 70 =>
                      suggestions[n] = "pro tip" /\ suggestions[n - 1] = GenericTips[4]
               /\ score >= 70 =>
                      suggestions[n] = GenericTips[4] /\ "pro tip" \notin Range(suggestions)

\* an analysis that scored in the sixties, and one of its lists
ModerateMatchAdvised ==
    /\ last.op = "ATSScorer.analyze"
    /\ last.scored # <<>>
    /\ last.scored[1].result.ats_score \in 60..69
    /\ \E suggestions \in SuggestionsOf(last.scored[1]) :
           /\ suggestions[1] = "moderate match"
           /\ suggestions[Len(suggestions)] = "pro tip"

\* C29: in every list of suggestions of an analysis, the critical skill
\* message appears only when the analysis has missing skills, and is followed
\* by the suggestion that names them
CriticalSkillTipNamesSkills ==
    (last.op = "ATSScorer.analyze" /\ last.scored # <<>>) =>
        \A suggestions \in SuggestionsOf(last.scored[1]) :
            \A k \in 1..Len(suggestions) :
                suggestions[k] = "critical skill match" =>
                    /\ last.scored[1].result.skills_analysis.missing_skills # {}
                    /\ k < Len(suggestions)
                    /\ suggestions[k + 1] = "add key skills"

(***************************************************************************)
(* Properties of the matched and the missing keywords                      *)
(***************************************************************************)
\* C26: the matched list holds no keyword twice, the matched and the missing
\* keywords are disjoint and together are the distinct job keywords; a job
\* keyword is matched exactly when it is a resume keyword, a part of one, or
\* holds one; match_rate is |matched| / |distinct job keywords|, and 0.0 for
\* a job without keywords
MatchedAndMissingPartition ==
    \A k \in 1..Len(kw_out) :
        LET resume_set == Range(kw_in.resume_keywords)
            job_set == Range(kw_in.job_keywords)
            held(job_kw) ==
                \E resume_kw \in resume_set :
                    \/ job_kw = resume_kw
                    \/ IsSubstring(job_kw, resume_kw)
                    \/ IsSubstring(resume_kw, job_kw)
        IN /\ kw_out[k].hits = Cardinality(kw_out[k].matched)
           /\ kw_out[k].matched \cap kw_out[k].missing = {}
           /\ kw_out[k].matched \cup kw_out[k].missing = job_set
           /\ \A job_kw \in job_set : job_kw \in kw_out[k].matched <=> held(job_kw)
           /\ kw_out[k].match_rate =
                  IF job_set = {} THEN 0
                  ELSE Ratio(Cardinality(kw_out[k].matched), Cardinality(job_set))

\* two job keywords: one that holds a resume keyword, one the resume lacks
PartialAndMissingKeyword ==
    /\ kw_out # <<>>
    /\ kw_in.resume_keywords = <<"java">>
    /\ kw_out[1].matched = {"javascript"}
    /\ kw_out[1].missing = {"sql"}
    /\ 2 * kw_out[1].match_rate = Unit

(***************************************************************************)
(* Properties of the action verbs of a resume                              *)
(***************************************************************************)
AllActionVerbs == UNION {ACTION_VERBS[category] : category \in VerbCategories}

\* the words of the text that are action verbs, by their position
VerbOccurrences(text) ==
    LET words == Words(Lower(text))
    IN {k \in 1..Len(words) : words[k] \in AllActionVerbs}

\* C27: every occurrence of an action verb as a word of the resume adds
\* exactly 1 to action_verb_count, and so 5 points to the strength score
\* before the bonuses and the cap.
VerbOccurrenceCountedOnce ==
    vb_out # <<>> =>
        LET occurrences == Cardinality(VerbOccurrences(vb_in[1]))
            analysis == vb_out[1]
        IN /\ analysis.action_verb_count = occurrences
           /\ analysis.experience_strength_score =
                  Min(100, occurrences * 5 + analysis.metric_count * 10
                             + (IF analysis.leadership_indicators > 0 THEN 20 ELSE 0)
                             + (IF analysis.achievement_indicators > 0 THEN 15 ELSE 0))

(***************************************************************************)
(* Properties of the strategies of the two extractors                      *)
(***************************************************************************)
\* C28: after any calls of extract_keywords and extract_skills the two agree
\* on the strategy: once a load has been attempted _use_fallback is true
\* exactly when nlp is None, and extract_skills reads noun phrases exactly in
\* the states in which extract_keywords tags.
ExtractorsAgree ==
    xs # <<>> =>
        LET sc == xs[1].scorer
            tagger == xs[1].tagger
        IN /\ sc.runs.nlp > 0 => (sc.use_fallback <=> sc.nlp = "None")
           /\ SkillStrategy(sc, tagger) # "regex"
                <=> KeywordStrategy(sc, tagger) \in TaggerProfiles
           /\ xs_last # <<>> /\ xs_last[1].method = "extract_skills" =>
                (xs_last[1].strategy # "regex"
                    <=> sc.nlp = "Loaded" /\ tagger # "raises")

====
